---------------------------- MODULE Spec2Model ----------------------------
(***************************************************************************)
(* Model of the bulletin generator:                                        *)
(*   - the liturgical rules engine (bulletin/logic/rules.py) and the parts *)
(*     of BulletinBuilder (bulletin/document/builder.py) that consume it;  *)
(*   - the psalm reference resolver (bulletin/sources/psalms.py);          *)
(*   - the verse-number tokenizer (bulletin/document/formatting.py);       *)
(*   - the 9 am music grid reader (bulletin/sources/music_9am.py).         *)
(*                                                                         *)
(* Each component has its own variables and its own specification; the     *)
(* variables of the other components stay at their idle values.            *)
(*                                                                         *)
(* Strings are TLA+ strings; the Python string operations used by the      *)
(* code (lower, `in`, replace, strip, rstrip, split) and its regular       *)
(* expressions are modelled character by character with Len, SubSeq, \o.   *)
(***************************************************************************)
EXTENDS Integers, Sequences, FiniteSets, TLC

VARIABLES
  title,             \* schedule.title
  color,             \* schedule.color
  notes,             \* schedule.notes
  pop_form,          \* schedule.pop_form
  dismissal,         \* schedule.dismissal
  rules,             \* BulletinBuilder.rules (a SeasonalRules record)
  pop_form_key,      \* result of BulletinBuilder._get_pop_form_key
  dismissal_deacon,  \* hc_data["dismissal_deacon"]
  dismissal_people,  \* hc_data["dismissal_people"]
  pc,                \* "new" -> "constructed" -> "built"
  reference,         \* the psalm citation handed to the resolver
  parsed,            \* outcome of parse_psalm_reference(reference)
  selection,         \* outcome of get_psalm(reference)
  psalm_lines,       \* PsalmSelection.to_lines()
  ppc,               \* "idle" | "cited" -> "parsed" -> "selected" -> "rendered"
  passage,           \* the paragraph text handed to _split_verse_numbers
  verse_segments,    \* the list _split_verse_numbers returns
  tpc,               \* "idle" | "text" -> "split"
  all_rows,          \* the CSV grid handed to _find_sub_tables
  sub_tables,        \* the list of plans _find_sub_tables returns
  gpc,               \* "idle" | "grid" -> "found"
  plan_slots,        \* ServiceMusic9am.slots of the plan that is asked
  part_name,         \* the service part asked of get_slot
  got_slot,          \* the slot get_slot returns, NoSlot for None
  spc,               \* "idle" | "asked" -> "answered"
  sched,             \* sheet_data.schedule, the row of the service
  upstream,          \* the citations bible.oremus.org serves at present
  scripture,         \* scripture_readings, label -> ScriptureReading
  wog_data,          \* outcome of _prepare_word_of_god_data
  doc,               \* the headings add_word_of_god wrote, in order
  wpc,               \* "idle" | "scheduled" -> "fetched" -> "prepared" -> "written"
  disk,              \* corpus file -> the version of its content on disk, 0 when it is missing
  lru,               \* corpus file -> the value lru_cache holds for its loader, NotCached when none
  reads,             \* corpus file -> how often it was read from disk
  first_load,        \* corpus file -> the value of its first successful load
  observed,          \* what the latest resolver call got from its loader
  pop_result,        \* the list the latest _prepare_pop_elements returned
  cpc,               \* "idle" | "running"
  heap,              \* the list objects get_seasonal_rules created, by identity
  returned,          \* the calls of get_seasonal_rules so far, inputs, record and its value at return
  dpc                \* "idle" | "deriving"

rulesVars == << title, color, notes, pop_form, dismissal, rules, pop_form_key,
                dismissal_deacon, dismissal_people, pc >>
psalmVars == << reference, parsed, selection, psalm_lines, ppc >>
verseVars == << passage, verse_segments, tpc >>
gridVars == << all_rows, sub_tables, gpc >>
slotVars == << plan_slots, part_name, got_slot, spc >>
wordVars == << sched, upstream, scripture, wog_data, doc, wpc >>
cacheVars == << disk, lru, reads, first_load, observed, pop_result, cpc >>
deriverVars == << heap, returned, dpc >>

vars == << rulesVars, psalmVars, verseVars, gridVars, slotVars, wordVars, cacheVars, deriverVars >>

-----------------------------------------------------------------------------
(* Bounds of the model *)

\* Largest number of vocabulary words combined into one schedule title.
MaxTitleWords == 2

-----------------------------------------------------------------------------
(* Python string operations *)

UpperCase == "ABCDEFGHIJKLMNOPQRSTUVWXYZ"
LowerCase == "abcdefghijklmnopqrstuvwxyz"

CharAt(s, i) == SubSeq(s, i, i)

UpperSet == { CharAt(UpperCase, i) : i \in 1..Len(UpperCase) }

LowerOf ==
  [ c \in UpperSet |->
      CharAt(LowerCase, CHOOSE i \in 1..Len(UpperCase) : CharAt(UpperCase, i) = c) ]

\* str.lower()
RECURSIVE str_lower(_)
str_lower(s) ==
  IF s = "" THEN ""
  ELSE (IF CharAt(s, 1) \in UpperSet THEN LowerOf[CharAt(s, 1)] ELSE CharAt(s, 1))
       \o str_lower(SubSeq(s, 2, Len(s)))

\* k in s
str_contains(s, k) ==
  \E i \in 1..(Len(s) - Len(k) + 1) : SubSeq(s, i, i + Len(k) - 1) = k

\* s.replace(" ", "")
RECURSIVE str_remove_spaces(_)
str_remove_spaces(s) ==
  IF s = "" THEN ""
  ELSE (IF CharAt(s, 1) = " " THEN "" ELSE CharAt(s, 1))
       \o str_remove_spaces(SubSeq(s, 2, Len(s)))

\* s.rstrip(".")
RECURSIVE str_rstrip_period(_)
str_rstrip_period(s) ==
  IF s # "" /\ CharAt(s, Len(s)) = "."
  THEN str_rstrip_period(SubSeq(s, 1, Len(s) - 1))
  ELSE s

\* The characters str.strip() removes and the pattern \s matches, as far as
\* they occur in the model's inputs.
Whitespace == { " ", "\t", "\n" }

\* s.strip()
RECURSIVE str_strip(_)
str_strip(s) ==
  IF s # "" /\ CharAt(s, 1) \in Whitespace THEN str_strip(SubSeq(s, 2, Len(s)))
  ELSE IF s # "" /\ CharAt(s, Len(s)) \in Whitespace
       THEN str_strip(SubSeq(s, 1, Len(s) - 1))
  ELSE s

\* s.split("(")[0]
str_before_paren(s) ==
  IF \E i \in 1..Len(s) : CharAt(s, i) = "("
  THEN LET first == CHOOSE i \in 1..Len(s) :
                      /\ CharAt(s, i) = "("
                      /\ \A j \in 1..(i - 1) : CharAt(s, j) # "("
       IN SubSeq(s, 1, first - 1)
  ELSE s

-----------------------------------------------------------------------------
(* bulletin/logic/rules.py *)

_ACCLAMATION_STANDARD ==
  << "Blessed be God: {cross} Father, Son, and Holy Spirit.",
     "And blessed be his kingdom, now and for ever. Amen." >>

_ACCLAMATION_LENT ==
  << "Bless the Lord who forgives all our sins.",
     "His mercy endures forever." >>

_ACCLAMATION_EASTER ==
  << "Alleluia. Christ is risen.",
     "The Lord is risen indeed. Alleluia." >>

_FRACTION_ALLELUIA ==
  << "Alleluia. Christ our Passover is sacrificed for us;",
     "Therefore let us keep the feast. Alleluia." >>

_FRACTION_NO_ALLELUIA ==
  << "Christ our Passover is sacrificed for us;",
     "Therefore let us keep the feast." >>

DISMISSALS ==
  [ n \in {"1", "2", "3", "4"} |->
      CASE n = "1" -> << "Let us go forth in the name of Christ.",
                         "Thanks be to God." >>
        [] n = "2" -> << "Go in peace to love and serve the Lord.",
                         "Thanks be to God." >>
        [] n = "3" -> << "Let us go forth into the world, rejoicing in the power of the Spirit.",
                         "Thanks be to God." >>
        [] n = "4" -> << "Let us bless the Lord.",
                         "Thanks be to God." >> ]

\* Mutant: only the deacon's line gets the alleluias.
get_dismissal_text_deacon_only(dismissal_num, has_alleluia) ==
  LET base == IF dismissal_num \in DOMAIN DISMISSALS
              THEN DISMISSALS[dismissal_num]
              ELSE DISMISSALS["3"]
  IN IF has_alleluia
     THEN << str_rstrip_period(base[1]) \o ". Alleluia, alleluia.", base[2] >>
     ELSE base

get_dismissal_text(dismissal_num, has_alleluia) ==
  LET base == IF dismissal_num \in DOMAIN DISMISSALS
              THEN DISMISSALS[dismissal_num]
              ELSE DISMISSALS["3"]
  IN IF has_alleluia
     THEN << str_rstrip_period(base[1]) \o ". Alleluia, alleluia.",
             str_rstrip_period(base[2]) \o ". Alleluia, alleluia." >>
     ELSE base

\* Mutant: the Lent test is made before the Advent test.
_detect_season_lent_first(t, c, n) ==
  LET title_lower == str_lower(t)
  IN IF str_contains(title_lower, "lent") THEN "lent"
     ELSE IF str_contains(title_lower, "advent") THEN "advent"
     ELSE IF str_contains(title_lower, "christmas")
             \/ str_contains(title_lower, "christmastide") THEN "christmas"
     ELSE IF str_contains(title_lower, "epiphany") THEN "epiphany"
     ELSE IF str_contains(title_lower, "ash wednesday") THEN "lent"
     ELSE IF str_contains(title_lower, "palm sunday")
             \/ str_contains(title_lower, "passion") THEN "lent"
     ELSE IF str_contains(title_lower, "maundy")
             \/ str_contains(title_lower, "good friday") THEN "lent"
     ELSE IF str_contains(title_lower, "holy saturday") THEN "lent"
     ELSE IF str_contains(title_lower, "easter") THEN "easter"
     ELSE IF str_contains(title_lower, "ascension") THEN "easter"
     ELSE IF str_contains(title_lower, "pentecost")
             /\ ~str_contains(title_lower, "after") THEN "pentecost_day"
     ELSE IF str_contains(title_lower, "trinity") THEN "ordinary"
     ELSE IF str_contains(title_lower, "proper") THEN "ordinary"
     ELSE IF str_contains(title_lower, "pentecost") THEN "ordinary"
     ELSE IF str_lower(c) \in {"violet", "purple"} THEN "lent"
     ELSE IF str_lower(c) = "red" THEN "pentecost_day"
     ELSE "ordinary"

\* Mutant: the Pentecost Day test does not look for "after".
_detect_season_no_after(t, c, n) ==
  LET title_lower == str_lower(t)
  IN IF str_contains(title_lower, "advent") THEN "advent"
     ELSE IF str_contains(title_lower, "christmas")
             \/ str_contains(title_lower, "christmastide") THEN "christmas"
     ELSE IF str_contains(title_lower, "epiphany") THEN "epiphany"
     ELSE IF str_contains(title_lower, "ash wednesday") THEN "lent"
     ELSE IF str_contains(title_lower, "lent") THEN "lent"
     ELSE IF str_contains(title_lower, "palm sunday")
             \/ str_contains(title_lower, "passion") THEN "lent"
     ELSE IF str_contains(title_lower, "maundy")
             \/ str_contains(title_lower, "good friday") THEN "lent"
     ELSE IF str_contains(title_lower, "holy saturday") THEN "lent"
     ELSE IF str_contains(title_lower, "easter") THEN "easter"
     ELSE IF str_contains(title_lower, "ascension") THEN "easter"
     ELSE IF str_contains(title_lower, "pentecost") THEN "pentecost_day"
     ELSE IF str_contains(title_lower, "trinity") THEN "ordinary"
     ELSE IF str_contains(title_lower, "proper") THEN "ordinary"
     ELSE IF str_lower(c) \in {"violet", "purple"} THEN "lent"
     ELSE IF str_lower(c) = "red" THEN "pentecost_day"
     ELSE "ordinary"

_detect_season(t, c, n) ==
  LET title_lower == str_lower(t)
  IN IF str_contains(title_lower, "advent") THEN "advent"
     ELSE IF str_contains(title_lower, "christmas")
             \/ str_contains(title_lower, "christmastide") THEN "christmas"
     ELSE IF str_contains(title_lower, "epiphany") THEN "epiphany"
     ELSE IF str_contains(title_lower, "ash wednesday") THEN "lent"
     ELSE IF str_contains(title_lower, "lent") THEN "lent"
     ELSE IF str_contains(title_lower, "palm sunday")
             \/ str_contains(title_lower, "passion") THEN "lent"
     ELSE IF str_contains(title_lower, "maundy")
             \/ str_contains(title_lower, "good friday") THEN "lent"
     ELSE IF str_contains(title_lower, "holy saturday") THEN "lent"
     ELSE IF str_contains(title_lower, "easter") THEN "easter"
     ELSE IF str_contains(title_lower, "ascension") THEN "easter"
     ELSE IF str_contains(title_lower, "pentecost")
             /\ ~str_contains(title_lower, "after") THEN "pentecost_day"
     ELSE IF str_contains(title_lower, "trinity") THEN "ordinary"
     ELSE IF str_contains(title_lower, "proper") THEN "ordinary"
     ELSE IF str_contains(title_lower, "pentecost") THEN "ordinary"
     ELSE IF str_lower(c) \in {"violet", "purple"} THEN "lent"
     ELSE IF str_lower(c) = "red" THEN "pentecost_day"
     ELSE "ordinary"

\* Mutant: Pentecost Day is left out of the Easter season.
_is_in_easter_season_easter_only(season) == season = "easter"

_is_in_easter_season(season) == season \in {"easter", "pentecost_day"}

\* Mutant: the season tag is compared in the wrong letter case.
_is_lent_capitalised(season) == season = "Lent"

_is_lent(season) == season = "lent"

_is_lent_1(t) ==
  LET title_lower == str_lower(t)
  IN \/ str_contains(title_lower, "first sunday") /\ str_contains(title_lower, "lent")
     \/ str_contains(str_remove_spaces(title_lower), "lent 1")

\* Mutant: the marker is looked for without lowering the text.
_pop_has_confession_case_sensitive(form, n) ==
  LET combined == form \o " " \o n
  IN str_contains(combined, "w/ confession") \/ str_contains(combined, "with confession")

_pop_has_confession(form, n) ==
  LET combined == str_lower(form \o " " \o n)
  IN str_contains(combined, "w/ confession") \/ str_contains(combined, "with confession")

\* Mutant: only the phrase "holy week" is recognised.
_is_holy_week_phrase_only(t) == str_contains(str_lower(t), "holy week")

_is_holy_week(t) ==
  LET tl == str_lower(t)
  IN \E kw \in {"palm sunday", "passion", "maundy", "good friday",
                "holy saturday", "holy week"} : str_contains(tl, kw)

_is_ascension(t) == str_contains(str_lower(t), "ascension")

_is_trinity_sunday(t) == str_contains(str_lower(t), "trinity")

\* A variant of _get_proper_preface_key that offers the Lent options
\* without asking for a choice.
_get_proper_preface_key_lent_unprompted(t, season) ==
  IF _is_trinity_sunday(t) THEN << "trinity", << >>, FALSE >>
  ELSE IF _is_ascension(t) THEN << "ascension", << >>, FALSE >>
  ELSE IF _is_holy_week(t) THEN << "holy_week", << >>, FALSE >>
  ELSE IF season = "advent" THEN << "advent", << >>, FALSE >>
  ELSE IF season = "christmas" THEN << "incarnation", << >>, FALSE >>
  ELSE IF season = "epiphany" THEN << "epiphany", << >>, FALSE >>
  ELSE IF season = "lent" THEN << "lent", << "option_1", "option_2" >>, FALSE >>
  ELSE IF season = "easter" THEN << "easter", << >>, FALSE >>
  ELSE IF season = "pentecost_day" THEN << "pentecost", << >>, FALSE >>
  ELSE << "lords_day",
          << "of_god_the_father", "of_god_the_son", "of_god_the_holy_spirit" >>,
          TRUE >>

\* Returns <<key, options, prompt>>.
_get_proper_preface_key(t, season) ==
  IF _is_trinity_sunday(t) THEN << "trinity", << >>, FALSE >>
  ELSE IF _is_ascension(t) THEN << "ascension", << >>, FALSE >>
  ELSE IF _is_holy_week(t) THEN << "holy_week", << >>, FALSE >>
  ELSE IF season = "advent" THEN << "advent", << >>, FALSE >>
  ELSE IF season = "christmas" THEN << "incarnation", << >>, FALSE >>
  ELSE IF season = "epiphany" THEN << "epiphany", << >>, FALSE >>
  ELSE IF season = "lent" THEN << "lent", << "option_1", "option_2" >>, TRUE >>
  ELSE IF season = "easter" THEN << "easter", << >>, FALSE >>
  ELSE IF season = "pentecost_day" THEN << "pentecost", << >>, FALSE >>
  ELSE << "lords_day",
          << "of_god_the_father", "of_god_the_son", "of_god_the_holy_spirit" >>,
          TRUE >>

get_seasonal_rules(t, c, n, form) ==
  LET season == _detect_season(t, c, n)
      is_lent == _is_lent(season)
      is_easter == _is_in_easter_season(season)
      is_advent == season = "advent"
      use_penitential == is_lent
      use_decalogue == is_lent /\ _is_lent_1(t)
      acc == IF use_penitential THEN _ACCLAMATION_LENT
             ELSE IF is_easter THEN _ACCLAMATION_EASTER
             ELSE _ACCLAMATION_STANDARD
      sop_label == IF is_lent THEN "Kyrie"
                   ELSE IF is_advent
                        THEN "Song of Praise and Lighting of the Advent Wreath"
                        ELSE "Song of Praise"
      use_fraction == is_lent
      frac == IF is_lent THEN << "", "" >>
              ELSE IF is_easter THEN _FRACTION_ALLELUIA
              ELSE _FRACTION_NO_ALLELUIA
      use_pop_prayer == is_lent
      blessing_label == IF is_lent THEN "Prayer over the People" ELSE "Blessing"
      dismissal_alleluia == is_easter
      pop_confession == _pop_has_confession(form, n)
      pop_use_bcp_vi == pop_confession
      preface == _get_proper_preface_key(t, season)
  IN [ use_penitential_order      |-> use_penitential,
       use_decalogue              |-> use_decalogue,
       confession_before_word     |-> use_penitential,
       no_confession_after_pop    |-> use_penitential \/ pop_confession,
       include_collect_for_purity |-> ~use_penitential,
       acclamation_celebrant      |-> acc[1],
       acclamation_people         |-> acc[2],
       song_of_praise_label       |-> sop_label,
       is_advent                  |-> is_advent,
       use_fraction_anthem        |-> use_fraction,
       fraction_celebrant         |-> frac[1],
       fraction_people            |-> frac[2],
       use_prayer_over_people     |-> use_pop_prayer,
       blessing_label             |-> blessing_label,
       dismissal_has_alleluia     |-> dismissal_alleluia,
       pop_use_bcp_form_vi        |-> pop_use_bcp_vi,
       pop_has_confession         |-> pop_confession,
       proper_preface_key         |-> preface[1],
       proper_preface_options     |-> preface[2],
       prompt_preface             |-> preface[3],
       season                     |-> season ]

-----------------------------------------------------------------------------
(* bulletin/document/builder.py *)

roman_map ==
  [ k \in {"I", "II", "III", "IV", "V", "VI", "1", "2", "3", "4", "5", "6"} |->
      CASE k \in {"I", "1"}   -> "form_I"
        [] k \in {"II", "2"}  -> "form_II"
        [] k \in {"III", "3"} -> "form_III"
        [] k \in {"IV", "4"}  -> "form_IV"
        [] k \in {"V", "5"}   -> "form_V"
        [] k \in {"VI", "6"}  -> "form_VI" ]

\* BulletinBuilder._get_pop_form_key, with self.schedule.pop_form,
\* self.schedule.title and self.rules as parameters.
_get_pop_form_key(schedule_pop_form, schedule_title, r) ==
  LET form == str_strip(schedule_pop_form)
      title_lower == str_lower(schedule_title)
      squeezed == str_remove_spaces(title_lower)
      form_clean == str_strip(str_before_paren(form))
      standard == IF form_clean \in DOMAIN roman_map
                  THEN roman_map[form_clean]
                  ELSE "form_I"
  IN IF r.pop_use_bcp_form_vi THEN "form_VI"
     ELSE IF r.is_advent
          THEN IF str_contains(title_lower, "first") \/ str_contains(squeezed, "1")
               THEN "advent_I"
               ELSE IF str_contains(title_lower, "second") \/ str_contains(squeezed, "2")
               THEN "advent_II"
               ELSE IF str_contains(title_lower, "third") \/ str_contains(squeezed, "3")
               THEN "advent_III"
               ELSE IF str_contains(title_lower, "fourth") \/ str_contains(squeezed, "4")
               THEN "advent_IV"
               ELSE standard
          ELSE standard

-----------------------------------------------------------------------------
(* Schedule rows the builder is constructed from.  Every field is a        *)
(* stripped string, as google_sheet._get returns it.                       *)

TitleWords ==
  << "Advent", "CHRISTMAS", "Epiphany", "Ash Wednesday", "Lent", "Palm Sunday",
     "Passion", "Maundy Thursday", "Good Friday", "Holy Saturday", "Holy Week",
     "Easter", "Ascension", "Pentecost", "after", "Trinity", "Proper", "St. Mark",
     "First Sunday in", "Day", "1" >>

RECURSIVE JoinWords(_)
JoinWords(ws) ==
  IF Len(ws) = 0 THEN ""
  ELSE IF Len(ws) = 1 THEN TitleWords[ws[1]]
  ELSE TitleWords[ws[1]] \o " " \o JoinWords(Tail(ws))

\* Titles made of up to MaxTitleWords vocabulary words.
VocabTitles ==
  { JoinWords(ws) :
      ws \in UNION { [1..k -> 1..Len(TitleWords)] : k \in 0..MaxTitleWords } }

ExtraTitles ==
  { "First Sunday in Lent", "Third Sunday in Lent", "Lent 1", "LENT 1",
    "The Day of Pentecost", "Pentecost Day", "Second Sunday after Pentecost",
    "Excellent Hymns", "Monday in Holy Week", "Easter Day",
    "First Sunday after the Epiphany" }

AdventTitles ==
  { "First Sunday of Advent", "Second Sunday of Advent", "Third Sunday of Advent",
    "Fourth Sunday of Advent", "Advent 1", "Advent 2", "Advent 3", "Advent 4",
    "Fourth Sunday of Advent 2023", "Third Sunday of Advent (Dec 17)",
    "Advent Lessons and Carols" }

Colors == { "Violet", "PURPLE", "Red", "Green", "" }

NotesValues ==
  { "", "Baptism", "Form VI (w/ confession)", "POP With Confession",
    "confession omitted" }

PopForms ==
  { "", "I", "II", "III", "IV", "V", "VI", "3", "6", "VI (w/ confession)",
    "IV (BCP p. 388)", "vi", "Form II", "II w/" }

DismissalValues == { "", "1", "2", "3", "4", "5" }

Row(t, c, n, f, d) ==
  [ title |-> t, color |-> c, notes |-> n, pop_form |-> f, dismissal |-> d ]

\* Rows that vary the title and the color.
SeasonRows ==
  { Row(t, c, "", "I", "1") : t \in VocabTitles \cup ExtraTitles, c \in Colors }

\* Rows that vary the notes and the POP form.
PopRows ==
  { Row(t, "Violet", n, f, "2") :
      t \in AdventTitles \cup { "Proper 21", "First Sunday in Lent", "Easter Day" },
      n \in NotesValues, f \in PopForms }

\* Rows that vary the dismissal number.
DismissalRows ==
  { Row(t, c, "", "II", d) :
      t \in { "Easter Day", "The Day of Pentecost", "Third Sunday in Lent",
              "Proper 12", "Ascension Day", "" },
      c \in { "White", "Red" }, d \in DismissalValues }

ScheduleRows == SeasonRows \cup PopRows \cup DismissalRows

-----------------------------------------------------------------------------
(* Idle values of each component *)

NoRules == [ season |-> "" ]

RulesIdle ==
  /\ title = "" /\ color = "" /\ notes = "" /\ pop_form = "" /\ dismissal = ""
  /\ rules = NoRules
  /\ pop_form_key = "" /\ dismissal_deacon = "" /\ dismissal_people = ""
  /\ pc = "idle"

NoParse == [ raised |-> FALSE, psalm_num |-> 0, verse_specs |-> << >> ]
NoSelection == [ raised |-> "", psalm_number |-> 0, latin |-> "", verses |-> << >> ]

PsalmIdle ==
  /\ reference = ""
  /\ parsed = NoParse
  /\ selection = NoSelection
  /\ psalm_lines = << >>
  /\ ppc = "idle"

VerseIdle ==
  /\ passage = ""
  /\ verse_segments = << >>
  /\ tpc = "idle"

GridIdle ==
  /\ all_rows = << >>
  /\ sub_tables = << >>
  /\ gpc = "idle"

SlotIdle ==
  /\ plan_slots = << >>
  /\ part_name = ""
  /\ got_slot = << >>
  /\ spc = "idle"

NoSchedule ==
  [ title |-> "", color |-> "", notes |-> "", pop_form |-> "", reading |-> "",
    psalm |-> "", gospel |-> "" ]

NoData == [ raised |-> FALSE, data |-> << >> ]

WordIdle ==
  /\ sched = NoSchedule
  /\ upstream = {}
  /\ scripture = << >>
  /\ wog_data = NoData
  /\ doc = << >>
  /\ wpc = "idle"

CacheIdle ==
  /\ disk = << >>
  /\ lru = << >>
  /\ reads = << >>
  /\ first_load = << >>
  /\ observed = << >>
  /\ pop_result = << >>
  /\ cpc = "idle"

DeriverIdle ==
  /\ heap = << >>
  /\ returned = << >>
  /\ dpc = "idle"

-----------------------------------------------------------------------------
(* Frames: the variables of the other components, and their idle values *)

besidesRules == << psalmVars, verseVars, gridVars, slotVars, wordVars, cacheVars, deriverVars >>
BesidesRulesIdle == PsalmIdle /\ VerseIdle /\ GridIdle /\ SlotIdle /\ WordIdle /\ CacheIdle /\ DeriverIdle

besidesPsalm == << rulesVars, verseVars, gridVars, slotVars, wordVars, cacheVars, deriverVars >>
BesidesPsalmIdle == RulesIdle /\ VerseIdle /\ GridIdle /\ SlotIdle /\ WordIdle /\ CacheIdle /\ DeriverIdle

besidesVerse == << rulesVars, psalmVars, gridVars, slotVars, wordVars, cacheVars, deriverVars >>
BesidesVerseIdle == RulesIdle /\ PsalmIdle /\ GridIdle /\ SlotIdle /\ WordIdle /\ CacheIdle /\ DeriverIdle

besidesGrid == << rulesVars, psalmVars, verseVars, slotVars, wordVars, cacheVars, deriverVars >>
BesidesGridIdle == RulesIdle /\ PsalmIdle /\ VerseIdle /\ SlotIdle /\ WordIdle /\ CacheIdle /\ DeriverIdle

besidesSlot == << rulesVars, psalmVars, verseVars, gridVars, wordVars, cacheVars, deriverVars >>
BesidesSlotIdle == RulesIdle /\ PsalmIdle /\ VerseIdle /\ GridIdle /\ WordIdle /\ CacheIdle /\ DeriverIdle

besidesWord == << rulesVars, psalmVars, verseVars, gridVars, slotVars, cacheVars, deriverVars >>
BesidesWordIdle == RulesIdle /\ PsalmIdle /\ VerseIdle /\ GridIdle /\ SlotIdle /\ CacheIdle /\ DeriverIdle

besidesCache == << rulesVars, psalmVars, verseVars, gridVars, slotVars, wordVars, deriverVars >>
BesidesCacheIdle == RulesIdle /\ PsalmIdle /\ VerseIdle /\ GridIdle /\ SlotIdle /\ WordIdle /\ DeriverIdle

besidesDeriver == << rulesVars, psalmVars, verseVars, gridVars, slotVars, wordVars, cacheVars >>
BesidesDeriverIdle == RulesIdle /\ PsalmIdle /\ VerseIdle /\ GridIdle /\ SlotIdle /\ WordIdle /\ CacheIdle

-----------------------------------------------------------------------------
(* State machine of the rules engine and the builder *)

Init ==
  /\ BesidesRulesIdle
  /\ \E row \in ScheduleRows :
       /\ title = row.title
       /\ color = row.color
       /\ notes = row.notes
       /\ pop_form = row.pop_form
       /\ dismissal = row.dismissal
  /\ rules = NoRules
  /\ pop_form_key = ""
  /\ dismissal_deacon = ""
  /\ dismissal_people = ""
  /\ pc = "new"

\* BulletinBuilder.__init__: derive the seasonal rules from the schedule row.
Construct ==
  /\ pc = "new"
  /\ rules' = get_seasonal_rules(title, color, notes, pop_form)
  /\ pc' = "constructed"
  /\ UNCHANGED << title, color, notes, pop_form, dismissal, pop_form_key,
                  dismissal_deacon, dismissal_people >>
  /\ UNCHANGED besidesRules

\* BulletinBuilder.build: _prepare_word_of_god_data selects the POP form,
\* _prepare_holy_communion_data the dismissal lines.
Build ==
  /\ pc = "constructed"
  /\ pop_form_key' = _get_pop_form_key(pop_form, title, rules)
  /\ LET dismissal_num == IF dismissal = "" THEN "3" ELSE dismissal
         text == get_dismissal_text(dismissal_num, rules.dismissal_has_alleluia)
     IN /\ dismissal_deacon' = text[1]
        /\ dismissal_people' = text[2]
  /\ pc' = "built"
  /\ UNCHANGED << title, color, notes, pop_form, dismissal, rules >>
  /\ UNCHANGED besidesRules

Next == Construct \/ Build

Spec == Init /\ [][Next]_vars

-----------------------------------------------------------------------------
(* Vocabulary of the claims *)

Derived == pc \in { "constructed", "built" }

\* The title in lower case.
TitleLower == str_lower(title)

\* `tl` contains one of the keywords `kws`.
HasAny(tl, kws) == \E kw \in kws : str_contains(tl, kw)

TitleHas(kw) == str_contains(TitleLower, kw)

ColorIs(names) == str_lower(color) \in names

\* The title keywords season detection tests.
SeasonKeywords ==
  { "advent", "christmas", "christmastide", "epiphany", "ash wednesday", "lent",
    "palm sunday", "passion", "maundy", "good friday", "holy saturday", "easter",
    "ascension", "pentecost", "trinity", "proper" }

RulesTypeOK ==
  /\ DOMAIN rules =
       { "use_penitential_order", "use_decalogue", "confession_before_word",
         "no_confession_after_pop", "include_collect_for_purity",
         "acclamation_celebrant", "acclamation_people", "song_of_praise_label",
         "is_advent", "use_fraction_anthem", "fraction_celebrant",
         "fraction_people", "use_prayer_over_people", "blessing_label",
         "dismissal_has_alleluia", "pop_use_bcp_form_vi", "pop_has_confession",
         "proper_preface_key", "proper_preface_options", "prompt_preface",
         "season" }
  /\ rules.season \in { "advent", "christmas", "epiphany", "lent", "easter",
                        "pentecost_day", "ordinary" }
  /\ \A f \in { "use_penitential_order", "use_decalogue", "confession_before_word",
                "no_confession_after_pop", "include_collect_for_purity",
                "is_advent", "use_fraction_anthem", "use_prayer_over_people",
                "dismissal_has_alleluia", "pop_use_bcp_form_vi",
                "pop_has_confession", "prompt_preface" } : rules[f] \in BOOLEAN

\* C1: get_seasonal_rules always returns a rules record, and a title with no
\* season keyword together with a color other than violet/purple/red yields
\* the ordinary-time record: season 'ordinary', the standard acclamation,
\* include_collect_for_purity, no fraction anthem, blessing label 'Blessing',
\* no alleluia in the dismissal and preface key 'lords_day'.
C1_OrdinaryDefaults ==
  Derived =>
    /\ RulesTypeOK
    /\ (~HasAny(TitleLower, SeasonKeywords)
        /\ ~ColorIs({ "violet", "purple", "red" })) =>
         /\ rules.season = "ordinary"
         /\ rules.acclamation_celebrant = _ACCLAMATION_STANDARD[1]
         /\ rules.acclamation_people = _ACCLAMATION_STANDARD[2]
         /\ rules.include_collect_for_purity = TRUE
         /\ rules.use_fraction_anthem = FALSE
         /\ rules.blessing_label = "Blessing"
         /\ rules.dismissal_has_alleluia = FALSE
         /\ rules.proper_preface_key = "lords_day"

\* The keyword groups of season detection, in their order of precedence.  A
\* group matches a title that contains one of its keywords and none of the
\* keywords of `unless`.
SeasonGroups ==
  << [ kws |-> { "advent" }, unless |-> { }, season |-> "advent" ],
     [ kws |-> { "christmas", "christmastide" }, unless |-> { },
       season |-> "christmas" ],
     [ kws |-> { "epiphany" }, unless |-> { }, season |-> "epiphany" ],
     [ kws |-> { "ash wednesday", "lent", "palm sunday", "passion", "maundy",
                 "good friday", "holy saturday" },
       unless |-> { }, season |-> "lent" ],
     [ kws |-> { "easter", "ascension" }, unless |-> { }, season |-> "easter" ],
     [ kws |-> { "pentecost" }, unless |-> { "after" }, season |-> "pentecost_day" ],
     [ kws |-> { "trinity", "proper", "pentecost" }, unless |-> { },
       season |-> "ordinary" ] >>

\* The groups the lower-cased title `tl` matches.
MatchingGroups(tl) ==
  { g \in DOMAIN SeasonGroups :
      HasAny(tl, SeasonGroups[g].kws) /\ ~HasAny(tl, SeasonGroups[g].unless) }

\* C2: the season is that of the first keyword group the title matches, in
\* the order Advent, Christmas, Epiphany, Lent/Holy Week, Easter/Ascension,
\* Pentecost Day, Trinity/Proper/Pentecost, whatever the letter case and
\* whatever the color; only a title matching no group is classified by its
\* color: violet/purple 'lent', red 'pentecost_day', anything else 'ordinary'.
C2_SeasonPrecedence ==
  Derived =>
    LET matching == MatchingGroups(TitleLower)
        first == CHOOSE g \in matching : \A h \in matching : g <= h
    IN rules.season =
         IF matching # { } THEN SeasonGroups[first].season
         ELSE IF ColorIs({ "violet", "purple" }) THEN "lent"
         ELSE IF ColorIs({ "red" }) THEN "pentecost_day"
         ELSE "ordinary"

\* A title with keywords of two groups and a color that would say otherwise.
C2_Witness ==
  /\ pc = "constructed"
  /\ TitleHas("advent") /\ TitleHas("lent")
  /\ ColorIs({ "red" })
  /\ rules.season = "advent"

\* No keyword of a group before Pentecost Day is in the title.
NoEarlierKeyword ==
  LET tl == TitleLower
  IN \A g \in 1..5 : ~HasAny(tl, SeasonGroups[g].kws)

\* The title names the Day of Pentecost itself.
NamesPentecostDay == TitleHas("pentecost day") \/ TitleHas("day of pentecost")

\* C3 as stated: a title that matches no earlier keyword and contains
\* 'Pentecost' is 'pentecost_day' only when it names Pentecost Day itself;
\* with 'Pentecost' but without 'Day' it is 'ordinary'.
C3_PentecostNeedsDay ==
  (Derived /\ TitleHas("pentecost") /\ ~NamesPentecostDay /\ NoEarlierKeyword) =>
    rules.season = "ordinary"

\* C3 (amended): a title that matches no earlier keyword and contains
\* 'Pentecost' is 'ordinary' when it also contains 'after' and
\* 'pentecost_day' when it does not, with or without the word 'Day'.
C3_PentecostUnlessAfter ==
  (Derived /\ TitleHas("pentecost") /\ NoEarlierKeyword) =>
    rules.season = IF TitleHas("after") THEN "ordinary" ELSE "pentecost_day"

\* A bare 'Pentecost' classified as Pentecost Day.
C3_Witness ==
  /\ pc = "constructed"
  /\ NoEarlierKeyword /\ TitleHas("pentecost")
  /\ ~NamesPentecostDay /\ ~TitleHas("after")
  /\ rules.season = "pentecost_day"

\* C4: in every derived record, season 'lent' implies the penitential order,
\* no collect for purity, the fraction anthem, the prayer over the people and
\* its label; season 'easter' or 'pentecost_day' implies the alleluia
\* dismissal.
C4_SeasonImplications ==
  Derived =>
    /\ rules.season = "lent" =>
         /\ rules.use_penitential_order = TRUE
         /\ rules.include_collect_for_purity = FALSE
         /\ rules.use_fraction_anthem = TRUE
         /\ rules.use_prayer_over_people = TRUE
         /\ rules.blessing_label = "Prayer over the People"
    /\ rules.season \in { "easter", "pentecost_day" } =>
         rules.dismissal_has_alleluia = TRUE

\* The scenario 'Third Sunday in Lent', Violet.
C4_Witness ==
  /\ pc = "constructed"
  /\ title = "Third Sunday in Lent" /\ color = "Violet"
  /\ rules.season = "lent"
  /\ rules.use_penitential_order /\ ~rules.use_decalogue
  /\ rules.blessing_label = "Prayer over the People"

\* The title names the First Sunday in Lent, written out or in the compact
\* form 'Lent 1' (any letter case, with or without the space).
NamesFirstSundayInLent ==
  \/ TitleHas("first sunday") /\ TitleHas("lent")
  \/ str_contains(str_remove_spaces(TitleLower), "lent1")

\* C5: use_decalogue is true exactly when the season is 'lent' and the title
\* names the First Sunday in Lent, written out or as 'Lent 1'.
C5_DecalogueOnLent1 ==
  Derived =>
    (rules.use_decalogue <=> (rules.season = "lent" /\ NamesFirstSundayInLent))

\* The dismissal pair the sheet's number selects (number 3 when it is blank
\* or unknown).
BaseDismissal ==
  IF dismissal \in { "1", "2", "3", "4" } THEN DISMISSALS[dismissal]
  ELSE DISMISSALS["3"]

\* The line with its final period replaced by `ending`.
PeriodReplacedBy(line, ending) == SubSeq(line, 1, Len(line) - 1) \o ending

\* C6 as stated: with dismissal_has_alleluia both dismissal lines have their
\* trailing period replaced by ", alleluia, alleluia."; without it both
\* lines are unchanged.
C6_PeriodReplaced ==
  pc = "built" =>
    IF rules.dismissal_has_alleluia
    THEN /\ dismissal_deacon = PeriodReplacedBy(BaseDismissal[1], ", alleluia, alleluia.")
         /\ dismissal_people = PeriodReplacedBy(BaseDismissal[2], ", alleluia, alleluia.")
    ELSE /\ dismissal_deacon = BaseDismissal[1]
         /\ dismissal_people = BaseDismissal[2]

\* C6 (amended): with dismissal_has_alleluia both dismissal lines keep their
\* text and trailing period and are followed by " Alleluia, alleluia.";
\* without it both lines are unchanged.
C6_AlleluiaAppended ==
  pc = "built" =>
    IF rules.dismissal_has_alleluia
    THEN /\ dismissal_deacon = BaseDismissal[1] \o " Alleluia, alleluia."
         /\ dismissal_people = BaseDismissal[2] \o " Alleluia, alleluia."
    ELSE /\ dismissal_deacon = BaseDismissal[1]
         /\ dismissal_people = BaseDismissal[2]

\* Easter Day with dismissal 2.
C6_Witness ==
  /\ pc = "built"
  /\ rules.dismissal_has_alleluia
  /\ dismissal = "2"
  /\ dismissal_deacon = "Go in peace to love and serve the Lord. Alleluia, alleluia."
  /\ dismissal_people = "Thanks be to God. Alleluia, alleluia."

\* The confession marker, in any letter case, in the POP-form text followed
\* by a space and the notes.
ConfessionMarked ==
  LET text == str_lower(pop_form \o " " \o notes)
  IN str_contains(text, "w/ confession") \/ str_contains(text, "with confession")

AdventForms == << "advent_I", "advent_II", "advent_III", "advent_IV" >>

\* The form a Roman numeral I-VI or a digit 1-6 standing before any
\* parenthesis of the POP-form string selects; form_I when there is none.
StandardForm ==
  LET numeral == str_strip(str_before_paren(pop_form))
  IN CASE numeral \in { "I", "1" }   -> "form_I"
       [] numeral \in { "II", "2" }  -> "form_II"
       [] numeral \in { "III", "3" } -> "form_III"
       [] numeral \in { "IV", "4" }  -> "form_IV"
       [] numeral \in { "V", "5" }   -> "form_V"
       [] numeral \in { "VI", "6" }  -> "form_VI"
       [] OTHER -> "form_I"

\* C7 as stated: a confession marker selects form_VI; otherwise an Advent
\* title selects an Advent form; otherwise the POP-form numeral selects
\* form_I..form_VI, form_I when it cannot be parsed.
C7_FormDecisionOrder ==
  pc = "built" =>
    IF ConfessionMarked THEN pop_form_key = "form_VI"
    ELSE IF TitleHas("advent") THEN \E k \in 1..4 : pop_form_key = AdventForms[k]
    ELSE pop_form_key = StandardForm

\* The title carries one of the ordinals the Advent branch looks for.
TitleHasOrdinal ==
  HasAny(TitleLower, { "first", "second", "third", "fourth", "1", "2", "3", "4" })

\* C7 (amended): a confession marker selects form_VI; otherwise an Advent
\* title that carries an ordinal keyword or a digit 1-4 selects an Advent
\* form; otherwise (an Advent title without ordinal included) the POP-form
\* numeral selects form_I..form_VI, form_I when it cannot be parsed.
C7_FormDecisionOrderAmended ==
  pc = "built" =>
    IF ConfessionMarked THEN pop_form_key = "form_VI"
    ELSE IF TitleHas("advent") /\ TitleHasOrdinal
         THEN \E k \in 1..4 : pop_form_key = AdventForms[k]
    ELSE pop_form_key = StandardForm

\* The confession marker overrides an Advent title and another numeral.
C7_Witness ==
  /\ pc = "built"
  /\ ConfessionMarked
  /\ title = "Advent 2" /\ pop_form = "II"
  /\ pop_form_key = "form_VI"

OrdinalWords == << "first", "second", "third", "fourth" >>

OrdinalDigits == << "1", "2", "3", "4" >>

\* The title names the k-th Sunday of Advent: by the ordinal word, or in
\* the compact form 'Advent k'.
NamesAdventSunday(k) ==
  TitleHas(OrdinalWords[k]) \/ TitleHas("advent " \o OrdinalDigits[k])

\* C8: in Advent with no confession marker, a title naming the k-th Sunday
\* of Advent selects the k-th Advent form, also when the title carries other
\* digits such as a date or a year.
C8_AdventOrdinalForm ==
  (pc = "built" /\ rules.is_advent /\ ~ConfessionMarked) =>
    \A k \in 1..4 : NamesAdventSunday(k) => pop_form_key = AdventForms[k]

\* C9: the proper preface is 'trinity' for a Trinity title, else 'ascension'
\* for an Ascension title, else 'holy_week' for a Holy Week title, each with
\* no options and no prompt; else it follows the season: a single key without
\* options or prompt for advent, christmas, epiphany, easter and
\* pentecost_day, two options with a prompt for lent and three options with
\* a prompt for ordinary.
C9_PrefacePriority ==
  Derived =>
    LET key == rules.proper_preface_key
        options == rules.proper_preface_options
        prompt == rules.prompt_preface
        single == options = << >> /\ prompt = FALSE
    IN IF TitleHas("trinity") THEN key = "trinity" /\ single
       ELSE IF TitleHas("ascension") THEN key = "ascension" /\ single
       ELSE IF HasAny(TitleLower, { "palm sunday", "passion", "maundy",
                                    "good friday", "holy saturday", "holy week" })
            THEN key = "holy_week" /\ single
       ELSE /\ key \notin { "trinity", "ascension", "holy_week" }
            /\ rules.season \in { "advent", "christmas", "epiphany", "easter",
                                  "pentecost_day" } => single
            /\ rules.season = "lent" => (Len(options) = 2 /\ prompt = TRUE)
            /\ rules.season = "ordinary" => (Len(options) = 3 /\ prompt = TRUE)

\* A Holy Week title in season lent gets 'holy_week', not the Lent options.
C9_Witness ==
  /\ pc = "constructed"
  /\ TitleHas("palm sunday")
  /\ rules.season = "lent"
  /\ rules.proper_preface_key = "holy_week"
  /\ rules.proper_preface_options = << >>
  /\ rules.prompt_preface = FALSE

\* C10: the opening acclamation is the Lenten pair under the penitential
\* order, else the Easter pair in season 'easter' or 'pentecost_day', else
\* the standard pair; both lines always come from the same pair.
C10_Acclamation ==
  Derived =>
    << rules.acclamation_celebrant, rules.acclamation_people >> =
      IF rules.use_penitential_order
      THEN << "Bless the Lord who forgives all our sins.",
              "His mercy endures forever." >>
      ELSE IF rules.season \in { "easter", "pentecost_day" }
      THEN << "Alleluia. Christ is risen.", "The Lord is risen indeed. Alleluia." >>
      ELSE << "Blessed be God: {cross} Father, Son, and Holy Spirit.",
              "And blessed be his kingdom, now and for ever. Amen." >>

\* The Day of Pentecost opens with the Easter acclamation.
C10_Witness ==
  /\ pc = "constructed"
  /\ rules.season = "pentecost_day"
  /\ rules.acclamation_celebrant = "Alleluia. Christ is risen."
  /\ rules.acclamation_people = "The Lord is risen indeed. Alleluia."

-----------------------------------------------------------------------------
(* bulletin/sources/psalms.py *)

\* Largest verse number written in a generated citation.
MaxVerse == 3

\* Largest number of comma-separated segments in a generated verse-spec.
MaxSegments == 2

Digits == "0123456789"

DigitSet == { CharAt(Digits, i) : i \in 1..Len(Digits) }

DigitVal ==
  [ c \in DigitSet |-> (CHOOSE i \in 1..Len(Digits) : CharAt(Digits, i) = c) - 1 ]

\* int(s) for a string of decimal digits
RECURSIVE str_to_int(_)
str_to_int(s) ==
  IF s = "" THEN 0
  ELSE 10 * str_to_int(SubSeq(s, 1, Len(s) - 1)) + DigitVal[CharAt(s, Len(s))]

\* Length of the longest run of digits of s that starts at position i (\d+)
RECURSIVE digit_run(_, _)
digit_run(s, i) ==
  IF i <= Len(s) /\ CharAt(s, i) \in DigitSet THEN 1 + digit_run(s, i + 1) ELSE 0

\* Length of the longest run of whitespace of s that starts at position i (\s*)
RECURSIVE whitespace_run(_, _)
whitespace_run(s, i) ==
  IF i <= Len(s) /\ CharAt(s, i) \in Whitespace
  THEN 1 + whitespace_run(s, i + 1) ELSE 0

\* s.startswith(k)
str_startswith(s, k) == Len(s) >= Len(k) /\ SubSeq(s, 1, Len(k)) = k

\* The alternatives of the rubric pattern; "read .*" begins with "read ".
RubricKeywords == { "responsively", "in unison", "read ", "antiphonally" }

\* The first position of lower at which a rubric keyword begins, 0 if none.
first_rubric_keyword(lower) ==
  LET hits == { p \in 1..Len(lower) :
                  \E kw \in RubricKeywords :
                     /\ p + Len(kw) - 1 <= Len(lower)
                     /\ SubSeq(lower, p, p + Len(kw) - 1) = kw }
  IN IF hits = {} THEN 0 ELSE CHOOSE h \in hits : \A q \in hits : h <= q

\* The start of the whitespace run that ends in front of position paren (\s*).
rubric_start(ref, paren) ==
  CHOOSE i \in 1..paren :
    /\ \A j \in i..(paren - 1) : CharAt(ref, j) \in Whitespace
    /\ i = 1 \/ CharAt(ref, i - 1) \notin Whitespace

\* The text in front of the match whose keyword begins at position p: the
\* match starts at the whitespace run and optional opening parenthesis in
\* front of the keyword and runs to the end of the text.
cut_rubric(ref, p) ==
  IF p = 0 THEN ref
  ELSE SubSeq(ref, 1,
              rubric_start(ref, IF p > 1 /\ CharAt(ref, p - 1) = "("
                                THEN p - 1 ELSE p) - 1)

\* A variant of strip_rubric that empties every text holding a rubric keyword.
strip_rubric_whole_line(ref) ==
  IF first_rubric_keyword(str_lower(ref)) = 0 THEN ref ELSE ""

\* re.sub(r"\s*[\(]?(?:responsively|in unison|read .*|antiphonally)[\)]?.*$",
\*        "", reference, flags=re.IGNORECASE)
strip_rubric(ref) == cut_rubric(ref, first_rubric_keyword(str_lower(ref)))

\* re.split(r",\s*", s)
RECURSIVE re_split_comma(_)
re_split_comma(s) ==
  IF ~str_contains(s, ",") THEN << s >>
  ELSE LET c == CHOOSE i \in 1..Len(s) :
                  /\ CharAt(s, i) = ","
                  /\ \A j \in 1..(i - 1) : CharAt(s, j) # ","
       IN << SubSeq(s, 1, c - 1) >>
          \o re_split_comma(SubSeq(s, c + 1 + whitespace_run(s, c + 1), Len(s)))

\* The half-verse suffixes [a-c]; the empty string stands for None.
SuffixSet == { "a", "b", "c" }

\* ([a-c])? at position i of s
suffix_at(s, i) ==
  IF i <= Len(s) /\ CharAt(s, i) \in SuffixSet THEN CharAt(s, i) ELSE ""

\* A failed re.match.
NoMatch == [ matched |-> FALSE, g1 |-> "", g2 |-> "", g3 |-> "", g4 |-> "", end |-> 0 ]

\* The groups of a match that has the digits s[1..n1], the suffix s1, and,
\* from position from on, the digits s[from..from+n2-1] and the suffix s2.
range_groups(s, n1, s1, from, n2, s2) ==
  IF n1 >= 1 /\ from - 1 <= Len(s) /\ CharAt(s, from - 1) = "-" /\ n2 >= 1
  THEN [ matched |-> TRUE, g1 |-> SubSeq(s, 1, n1), g2 |-> s1,
         g3 |-> SubSeq(s, from, from + n2 - 1), g4 |-> s2,
         end |-> from + n2 - 1 + Len(s2) ]
  ELSE NoMatch

range_second(s, n1, s1, from, n2) ==
  range_groups(s, n1, s1, from, n2, suffix_at(s, from + n2))

range_first(s, n1, s1) ==
  range_second(s, n1, s1, n1 + Len(s1) + 2, digit_run(s, n1 + Len(s1) + 2))

range_digits(s, n1) == range_first(s, n1, suffix_at(s, n1 + 1))

\* re.match(r"(\d+)([a-c])?-(\d+)([a-c])?", s): a match of a prefix of s
re_match_range(s) == range_digits(s, digit_run(s, 1))

single_groups(s, n1, s1) ==
  IF n1 >= 1
  THEN [ matched |-> TRUE, g1 |-> SubSeq(s, 1, n1), g2 |-> s1,
         g3 |-> "", g4 |-> "", end |-> n1 + Len(s1) ]
  ELSE NoMatch

single_digits(s, n1) == single_groups(s, n1, suffix_at(s, n1 + 1))

\* re.match(r"(\d+)([a-c])?", s): a match of a prefix of s
re_match_single(s) == single_digits(s, digit_run(s, 1))

\* A variant of expand_range that expands a range without its suffixes.
expand_range_bare(start, start_suffix, end, end_suffix) ==
  [ k \in 1..(end + 1 - start) |-> << start + k - 1, "" >> ]

\* for v in range(start, end + 1): ... verse_specs.append((v, suffix))
expand_range(start, start_suffix, end, end_suffix) ==
  [ k \in 1..(end + 1 - start) |->
      << start + k - 1,
         IF start + k - 1 = start /\ start_suffix # "" THEN start_suffix
         ELSE IF start + k - 1 = end /\ end_suffix # "" THEN end_suffix
         ELSE "" >> ]

\* What one segment appends to verse_specs, given its two matches.
expand_matches(range_match, single_match) ==
  IF range_match.matched
  THEN expand_range(str_to_int(range_match.g1), range_match.g2,
                    str_to_int(range_match.g3), range_match.g4)
  ELSE IF single_match.matched
  THEN << << str_to_int(single_match.g1), single_match.g2 >> >>
  ELSE << >>

\* The body of the loop over segments, for the stripped segment.
expand_stripped(segment) ==
  expand_matches(re_match_range(segment), re_match_single(segment))

\* The body of the loop over segments: the (verse, suffix) pairs one segment
\* appends to verse_specs.
expand_segment(raw_segment) == expand_stripped(str_strip(raw_segment))

RECURSIVE expand_segments(_)
expand_segments(segs) ==
  IF segs = << >> THEN << >>
  ELSE expand_segment(Head(segs)) \o expand_segments(Tail(segs))

ParseError == [ raised |-> TRUE, psalm_num |-> 0, verse_specs |-> << >> ]

\* The groups of a match of "Psalm", the whitespace s[6..from-1], the digits
\* s[from..from+nd-1] and, after a colon, the rest of the text if there is any.
psalm_groups(s, from, nd) ==
  IF str_startswith(s, "Psalm") /\ from > 6 /\ nd >= 1
  THEN IF from + nd < Len(s) /\ CharAt(s, from + nd) = ":"
       THEN [ matched |-> TRUE, g1 |-> SubSeq(s, from, from + nd - 1),
              g2 |-> SubSeq(s, from + nd + 1, Len(s)), g3 |-> "", g4 |-> "",
              end |-> Len(s) ]
       ELSE [ matched |-> TRUE, g1 |-> SubSeq(s, from, from + nd - 1),
              g2 |-> "", g3 |-> "", g4 |-> "", end |-> from + nd - 1 ]
  ELSE NoMatch

psalm_digits(s, from) == psalm_groups(s, from, digit_run(s, from))

\* re.match(r"Psalm\s+(\d+)(?::(.+))?", s): a match of a prefix of s
re_match_psalm(s) == psalm_digits(s, 6 + whitespace_run(s, 6))

\* parse_psalm_reference from the match on.
parse_match(match) ==
  IF ~match.matched THEN ParseError
  ELSE [ raised |-> FALSE,
         psalm_num |-> str_to_int(match.g1),
         verse_specs |->
           IF match.g2 = "" THEN << >>
           ELSE expand_segments(re_split_comma(str_strip(match.g2))) ]

\* parse_psalm_reference
parse_psalm_reference(ref) ==
  parse_match(re_match_psalm(str_strip(strip_rubric(ref))))

\* The psalter _load_psalms returns: psalm number -> latin incipit and
\* verse number -> first half and second-half lines.  A small corpus: psalm 23
\* with verses of one, two and no second-half lines, psalm 117 with its two
\* verses; every other psalm number is absent.
Psalter ==
  23 :> [ latin |-> "Dominus regit me",
          verses |->
            1 :> [ first_half |-> "The LORD is my shepherd;",
                   second_half |-> << "I shall not be in want." >> ]
            @@ 2 :> [ first_half |-> "He makes me lie down in green pastures",
                      second_half |-> << "and leads me", "beside still waters." >> ]
            @@ 3 :> [ first_half |-> "He revives my soul",
                      second_half |-> << >> ] ]
  @@ 117 :> [ latin |-> "Laudate Dominum",
              verses |->
                1 :> [ first_half |-> "Praise the LORD, all you nations;",
                       second_half |-> << "laud him, all you peoples." >> ]
                @@ 2 :> [ first_half |-> "For his loving-kindness toward us is great,",
                          second_half |-> << "and the faithfulness of the LORD",
                                             "endures for ever. Hallelujah!" >> ] ]

PsalmVerse(number, first_half, second_half) ==
  [ number |-> number, first_half |-> first_half, second_half |-> second_half ]

\* sorted(keys)
RECURSIVE sorted(_)
sorted(keys) ==
  IF keys = {} THEN << >>
  ELSE LET least == CHOOSE k \in keys : \A j \in keys : k <= j
       IN << least >> \o sorted(keys \ { least })

\* The branch of get_psalm for an empty verse_specs: the entire psalm.
entire_psalm(all_verses) ==
  LET order == sorted(DOMAIN all_verses)
  IN [ i \in 1..Len(order) |->
         PsalmVerse(order[i], all_verses[order[i]].first_half,
                    all_verses[order[i]].second_half) ]

\* lst[:1]
list_first(lst) == IF lst = << >> THEN << >> ELSE << lst[1] >>

\* lst[1:]
list_rest(lst) == IF Len(lst) <= 1 THEN << >> ELSE SubSeq(lst, 2, Len(lst))

\* A variant of select_verse in which suffix "b" keeps the whole second half.
select_verse_b_whole(all_verses, vnum, suffix) ==
  IF vnum \notin DOMAIN all_verses THEN << >>
  ELSE LET first_half == all_verses[vnum].first_half
           second_half == all_verses[vnum].second_half
       IN IF suffix = "a" THEN << PsalmVerse(vnum, first_half, << >>) >>
          ELSE IF suffix = "b" THEN << PsalmVerse(vnum, "", second_half) >>
          ELSE IF suffix = "c"
          THEN << PsalmVerse(vnum, "",
                             IF list_rest(second_half) # << >>
                             THEN list_rest(second_half)
                             ELSE second_half) >>
          ELSE << PsalmVerse(vnum, first_half, second_half) >>

\* The body of the loop of get_psalm over verse_specs, for one (vnum, suffix).
select_verse(all_verses, vnum, suffix) ==
  IF vnum \notin DOMAIN all_verses THEN << >>
  ELSE LET first_half == all_verses[vnum].first_half
           second_half == all_verses[vnum].second_half
       IN IF suffix = "a" THEN << PsalmVerse(vnum, first_half, << >>) >>
          ELSE IF suffix = "b"
          THEN << PsalmVerse(vnum, "", list_first(second_half)) >>
          ELSE IF suffix = "c"
          THEN << PsalmVerse(vnum, "",
                             IF list_rest(second_half) # << >>
                             THEN list_rest(second_half)
                             ELSE second_half) >>
          ELSE << PsalmVerse(vnum, first_half, second_half) >>

RECURSIVE select_verses(_, _)
select_verses(all_verses, verse_specs) ==
  IF verse_specs = << >> THEN << >>
  ELSE select_verse(all_verses, Head(verse_specs)[1], Head(verse_specs)[2])
       \o select_verses(all_verses, Tail(verse_specs))

PsalmSelection(psalm_number, latin, verses) ==
  [ raised |-> "", psalm_number |-> psalm_number, latin |-> latin,
    verses |-> verses ]

\* The ValueError get_psalm lets through or raises itself.
Raised(kind) ==
  [ raised |-> kind, psalm_number |-> 0, latin |-> "", verses |-> << >> ]

\* A variant of lookup_psalm that answers an absent psalm with an empty
\* selection.
lookup_psalm_empty_on_miss(p) ==
  IF p.raised THEN Raised("could not parse")
  ELSE IF p.psalm_num \notin DOMAIN Psalter
  THEN PsalmSelection(p.psalm_num, "", << >>)
  ELSE PsalmSelection(p.psalm_num, Psalter[p.psalm_num].latin,
                      IF p.verse_specs = << >>
                      THEN entire_psalm(Psalter[p.psalm_num].verses)
                      ELSE select_verses(Psalter[p.psalm_num].verses,
                                         p.verse_specs))

\* get_psalm from the parse result on.
lookup_psalm(p) ==
  IF p.raised THEN Raised("could not parse")
  ELSE IF p.psalm_num \notin DOMAIN Psalter THEN Raised("not found")
  ELSE PsalmSelection(p.psalm_num, Psalter[p.psalm_num].latin,
                      IF p.verse_specs = << >>
                      THEN entire_psalm(Psalter[p.psalm_num].verses)
                      ELSE select_verses(Psalter[p.psalm_num].verses,
                                         p.verse_specs))

\* get_psalm
get_psalm(ref) == lookup_psalm(parse_psalm_reference(ref))

\* "\n".join(parts)
RECURSIVE str_join_lines(_)
str_join_lines(parts) ==
  IF Len(parts) = 1 THEN parts[1]
  ELSE parts[1] \o "\n" \o str_join_lines(Tail(parts))

\* The parts to_lines collects for one verse.
verse_parts(verse) ==
  (IF verse.first_half # "" THEN << verse.first_half >> ELSE << >>)
  \o [ i \in 1..Len(verse.second_half) |-> "\t" \o verse.second_half[i] ]

\* PsalmSelection.to_lines
RECURSIVE to_lines(_)
to_lines(verses) ==
  IF verses = << >> THEN << >>
  ELSE (IF verse_parts(Head(verses)) # << >>
        THEN << str_join_lines(verse_parts(Head(verses))) >> ELSE << >>)
       \o to_lines(Tail(verses))

-----------------------------------------------------------------------------
(* Psalm citations *)

PsalmNumbers == { "23", "117", "100" }

HalfSuffixes == { "", "a", "b", "c" }

SingleSegments ==
  { ToString(n) \o sfx : n \in 1..MaxVerse, sfx \in HalfSuffixes }

RangeSuffixes == { << "", "" >>, << "a", "c" >>, << "b", "" >>, << "", "b" >> }

RangeSegments ==
  { ToString(n) \o p[1] \o "-" \o ToString(m) \o p[2] :
      n \in 1..MaxVerse, m \in 1..MaxVerse, p \in RangeSuffixes }

ListSegments == { "1", "2a", "1-2", "3c-3", "abc" }

RECURSIVE JoinSegments(_, _)
JoinSegments(segs, sep) ==
  IF Len(segs) = 1 THEN segs[1]
  ELSE segs[1] \o sep \o JoinSegments(Tail(segs), sep)

SegmentLists ==
  UNION { [ 1..n -> ListSegments ] : n \in 2..MaxSegments }

VerseSpecTexts ==
  SingleSegments \cup RangeSegments \cup { "abc" }
  \cup { JoinSegments(l, sep) : l \in SegmentLists, sep \in { ",", ", " } }

RubricWords ==
  { "responsively", "Responsively", "RESPONSIVELY",
    "in unison", "In Unison", "IN UNISON",
    "antiphonally", "Antiphonally", "ANTIPHONALLY" }

RubricClauses == RubricWords \cup { "(" \o w \o ")" : w \in RubricWords }

RubricBases ==
  { "Psalm 23", "Psalm 23:1-2", "Psalm 117:2b, 1", "Psalm 100:3c", "Psalm 23:2a-3" }

OtherCitations ==
  { "Psalm 116:1,10-17", "Psalm 23:1a-3c", "Psalm 51:1a", "Psalm 0", "Psalm 151",
    "Psalm 23:", "Psalm 23 and 24", "Psalm 23:1-2x", "Psalm23", "Ps 23",
    "psalm 23", "Psalm", "", "Psalm 117  read responsively by whole verse" }

Citations ==
  { "Psalm " \o n : n \in PsalmNumbers }
  \cup { "Psalm " \o n \o ":" \o v : n \in PsalmNumbers, v \in VerseSpecTexts }
  \cup { c \o " " \o r : c \in RubricBases, r \in RubricClauses }
  \cup OtherCitations

-----------------------------------------------------------------------------
(* State machine of the psalm reference resolver *)

InitPsalm ==
  /\ BesidesPsalmIdle
  /\ reference \in Citations
  /\ parsed = NoParse
  /\ selection = NoSelection
  /\ psalm_lines = << >>
  /\ ppc = "cited"

\* parse_psalm_reference(reference)
ParsePsalmReference ==
  /\ ppc = "cited"
  /\ parsed' = parse_psalm_reference(reference)
  /\ ppc' = "parsed"
  /\ UNCHANGED << reference, selection, psalm_lines >>
  /\ UNCHANGED besidesPsalm

\* get_psalm(reference)
GetPsalm ==
  /\ ppc = "parsed"
  /\ selection' = get_psalm(reference)
  /\ ppc' = "selected"
  /\ UNCHANGED << reference, parsed, psalm_lines >>
  /\ UNCHANGED besidesPsalm

\* PsalmSelection.to_lines()
ToLines ==
  /\ ppc = "selected"
  /\ selection.raised = ""
  /\ psalm_lines' = to_lines(selection.verses)
  /\ ppc' = "rendered"
  /\ UNCHANGED << reference, parsed, selection >>
  /\ UNCHANGED besidesPsalm

NextPsalm == ParsePsalmReference \/ GetPsalm \/ ToLines

SpecPsalm == InitPsalm /\ [][NextPsalm]_vars

-----------------------------------------------------------------------------
(* Vocabulary of the psalm claims *)

PsalmParsed == ppc \in { "parsed", "selected", "rendered" }

PsalmSelected == ppc \in { "selected", "rendered" }

\* A verse-spec segment in full: N[sfx] or N[sfx]-M[sfx].
IsSegment(seg) ==
  \/ re_match_range(seg).matched /\ re_match_range(seg).end = Len(seg)
  \/ re_match_single(seg).matched /\ re_match_single(seg).end = Len(seg)

\* A verse-spec in full: segments separated by commas.
RECURSIVE AllSegments(_)
AllSegments(segs) ==
  segs = << >> \/ (IsSegment(Head(segs)) /\ AllSegments(Tail(segs)))

IsVerseSpec(v) == AllSegments(re_split_comma(v))

\* The match reaches the end of the text, the psalm number is in 1..150 and
\* what follows the colon is a verse-spec.
FullMatch(r, match) ==
  /\ match.matched
  /\ match.end = Len(r)
  /\ str_to_int(match.g1) \in 1..150
  /\ match.g2 # "" => IsVerseSpec(match.g2)

WellFormedClean(r) == FullMatch(r, re_match_psalm(r))

\* The citation, once its rubric clause is stripped, reads
\* "Psalm <integer 1-150>[:<verse-spec>]" from its first to its last character.
WellFormedCitation(c) == WellFormedClean(str_strip(strip_rubric(c)))

\* The citation carries a verse-spec: text after "Psalm <integer>:".
HasVerseSpec(c) == re_match_psalm(str_strip(strip_rubric(c))).g2 # ""

\* The shape of a segment: verse n with suffix s1, or the range from verse n
\* with suffix s1 to verse m with suffix s2.
Single(n, s1) == [ range |-> FALSE, n |-> n, s1 |-> s1, m |-> n, s2 |-> "" ]
Range(n, s1, m, s2) == [ range |-> TRUE, n |-> n, s1 |-> s1, m |-> m, s2 |-> s2 ]

SegmentShapes ==
  { Single(n, s) : n \in 1..MaxVerse, s \in HalfSuffixes }
  \cup { Range(n, p[1], m, p[2]) :
           n \in 1..MaxVerse, m \in 1..MaxVerse, p \in RangeSuffixes }

AscendingShapes == { d \in SegmentShapes : d.n <= d.m }

ListShapes == { Single(1, ""), Single(2, "a"), Range(1, "", 2, ""), Range(3, "c", 3, "") }

ShapeLists ==
  { << d >> : d \in AscendingShapes }
  \cup UNION { [ 1..k -> ListShapes ] : k \in 2..MaxSegments }

ShapeText(d) ==
  ToString(d.n) \o d.s1
  \o (IF d.range THEN "-" \o ToString(d.m) \o d.s2 ELSE "")

ShapeLen(d) == d.m - d.n + 1

\* The text of a verse-spec made of the segments ds.
ShapesText(ds, sep) == JoinSegments([ i \in 1..Len(ds) |-> ShapeText(ds[i]) ], sep)

\* specs is the expansion of d as the claim words it: the integers n..m in
\* ascending order, the first with the start suffix, the last with the end
\* suffix, the interior ones with none.
ExpandsTo(d, specs) ==
  /\ Len(specs) = ShapeLen(d)
  /\ \A k \in 1..Len(specs) : specs[k][1] = d.n + k - 1
  /\ IF Len(specs) = 1
     THEN /\ d.s1 # "" => specs[1][2] = d.s1
          /\ d.s2 # "" => specs[1][2] = d.s2
          /\ (d.s1 = "" /\ d.s2 = "") => specs[1][2] = ""
     ELSE /\ specs[1][2] = d.s1
          /\ specs[Len(specs)][2] = d.s2
  /\ \A k \in 2..(Len(specs) - 1) : specs[k][2] = ""

\* The same, except that the single element of a range N-N carries the start
\* suffix when there is one and the end suffix otherwise.
ExpandsToAmended(d, specs) ==
  /\ Len(specs) = ShapeLen(d)
  /\ \A k \in 1..Len(specs) : specs[k][1] = d.n + k - 1
  /\ IF Len(specs) = 1
     THEN specs[1][2] = (IF d.s1 # "" THEN d.s1 ELSE d.s2)
     ELSE /\ specs[1][2] = d.s1
          /\ specs[Len(specs)][2] = d.s2
  /\ \A k \in 2..(Len(specs) - 1) : specs[k][2] = ""

\* specs is the in-order concatenation of the expansions of the segments ds.
RECURSIVE ConcatenatesExpansions(_, _, _)
ConcatenatesExpansions(ds, specs, amended) ==
  IF ds = << >> THEN specs = << >>
  ELSE LET k == ShapeLen(Head(ds))
       IN /\ Len(specs) >= k
          /\ IF amended THEN ExpandsToAmended(Head(ds), SubSeq(specs, 1, k))
                        ELSE ExpandsTo(Head(ds), SubSeq(specs, 1, k))
          /\ ConcatenatesExpansions(Tail(ds), SubSeq(specs, k + 1, Len(specs)),
                                    amended)

\* The generated citations the state's reference is an instance of.
CitedShapes ==
  { ds \in ShapeLists :
      \E n \in PsalmNumbers, sep \in { ",", ", " } :
         reference = "Psalm " \o n \o ":" \o ShapesText(ds, sep) }

\* The verse numbers of a list of PsalmVerse records.
VerseNumbersOf(verses) == [ i \in 1..Len(verses) |-> verses[i].number ]

\* The verse numbers of verse_specs that the psalm has, in citation order.
RECURSIVE PresentInOrder(_, _)
PresentInOrder(verse_specs, present) ==
  IF verse_specs = << >> THEN << >>
  ELSE (IF Head(verse_specs)[1] \in present
        THEN << Head(verse_specs)[1] >> ELSE << >>)
       \o PresentInOrder(Tail(verse_specs), present)

\* One verse as the claim has it rendered: the first half, then each
\* second-half line behind a tab, each on a line of its own.
RECURSIVE TabbedLines(_)
TabbedLines(lines) ==
  IF lines = << >> THEN ""
  ELSE "\n\t" \o Head(lines) \o TabbedLines(Tail(lines))

RenderedVerse(verse) ==
  IF verse.first_half # ""
  THEN verse.first_half \o TabbedLines(verse.second_half)
  ELSE "\t" \o Head(verse.second_half) \o TabbedLines(Tail(verse.second_half))

RECURSIVE RenderedVerses(_)
RenderedVerses(verses) ==
  IF verses = << >> THEN << >>
  ELSE (IF Head(verses).first_half = "" /\ Head(verses).second_half = << >>
        THEN << >> ELSE << RenderedVerse(Head(verses)) >>)
       \o RenderedVerses(Tail(verses))

\* What the claim has a cited verse (F, S) with suffix sfx yield.
HalfSelected(n, F, S, sfx) ==
  [ number |-> n,
    first_half |-> IF sfx \in { "", "a" } THEN F ELSE "",
    second_half |->
      IF sfx = "" THEN S
      ELSE IF sfx = "a" THEN << >>
      ELSE IF sfx = "b" THEN (IF S = << >> THEN << >> ELSE << S[1] >>)
      ELSE (IF Len(S) <= 1 THEN S ELSE Tail(S)) ]

-----------------------------------------------------------------------------
(* Claims about the psalm reference resolver *)

\* C11: parse_psalm_reference raises for every citation that, after rubric
\* stripping, does not read 'Psalm <integer 1-150>[:<verse-spec>]' in full;
\* 'Psalm 0' and 'Psalm 151' are rejected at parse time.
C11_MalformedRejected ==
  (PsalmParsed /\ ~WellFormedCitation(reference)) => parsed.raised

\* C12: the verse list is empty (entire psalm) only when the citation carries
\* no verse-spec: a citation with a verse-spec never resolves to the entire
\* psalm.
C12_VerseSpecNeverEntire ==
  (PsalmParsed /\ ~parsed.raised /\ parsed.verse_specs = << >>)
     => ~HasVerseSpec(reference)

\* C13 (as stated): the verse list is the in-order concatenation of the
\* segments' expansions; a range N-M with N <= M gives N..M ascending, the
\* first element with the start suffix, the last with the end suffix, the
\* interior ones with none.
C13_SegmentExpansion ==
  ppc = "parsed" =>
    /\ \A ds \in CitedShapes :
         /\ ~parsed.raised
         /\ ConcatenatesExpansions(ds, parsed.verse_specs, FALSE)
    /\ reference = "Psalm 116:1,10-17" =>
         parsed = [ raised |-> FALSE, psalm_num |-> 116,
                    verse_specs |-> << << 1, "" >> >>
                                    \o [ k \in 1..8 |-> << 9 + k, "" >> ] ]

\* C13 (amended): the same, except that the single element of a range N-N
\* carries the start suffix when there is one and the end suffix otherwise.
C13_SegmentExpansionAmended ==
  ppc = "parsed" =>
    /\ \A ds \in CitedShapes :
         /\ ~parsed.raised
         /\ ConcatenatesExpansions(ds, parsed.verse_specs, TRUE)
    /\ reference = "Psalm 116:1,10-17" =>
         parsed = [ raised |-> FALSE, psalm_num |-> 116,
                    verse_specs |-> << << 1, "" >> >>
                                    \o [ k \in 1..8 |-> << 9 + k, "" >> ] ]

\* A range N-N with two different suffixes has been expanded.
C13_Witness ==
  /\ ppc = "parsed"
  /\ reference = "Psalm 23:2a-2c"
  /\ parsed.verse_specs = << << 2, "a" >> >>

\* C14: for a cited verse of the corpus with first half F and second-half
\* lines S, no suffix yields (F, S), 'a' yields F alone, 'b' yields the first
\* line of S alone (nothing if S is empty), 'c' yields S without its first
\* line, or all of S when S has one line; to_lines renders every selected
\* verse as its first-half line followed by one tab-indented line per
\* second-half line.
C14_SuffixSelection ==
  PsalmSelected =>
    /\ \A p \in DOMAIN Psalter :
         \A n \in DOMAIN Psalter[p].verses :
            \A sfx \in HalfSuffixes :
               reference = "Psalm " \o ToString(p) \o ":" \o ToString(n) \o sfx
                 => /\ selection.raised = ""
                    /\ selection.verses =
                         << HalfSelected(n, Psalter[p].verses[n].first_half,
                                         Psalter[p].verses[n].second_half, sfx) >>
    /\ ppc = "rendered" => psalm_lines = RenderedVerses(selection.verses)

\* The last part of a three-part verse has been selected and rendered.
C14_Witness ==
  /\ ppc = "rendered"
  /\ reference = "Psalm 23:2c"
  /\ selection.verses =
       << [ number |-> 2, first_half |-> "",
            second_half |-> << "beside still waters." >> ] >>
  /\ psalm_lines = << "\tbeside still waters." >>

\* C15 (as stated): for every psalm number 1..150 and valid verse-spec,
\* get_psalm does not raise; absent verses are skipped, present ones come in
\* citation order, and a psalm absent from the corpus gives an empty or
\* partial result, not an exception.
C15_LookupMissNonFatal ==
  (PsalmSelected /\ WellFormedCitation(reference)) =>
    /\ selection.raised = ""
    /\ (parsed.psalm_num \in DOMAIN Psalter /\ parsed.verse_specs # << >>) =>
         VerseNumbersOf(selection.verses)
           = PresentInOrder(parsed.verse_specs,
                            DOMAIN Psalter[parsed.psalm_num].verses)

\* C15 (amended): for a psalm of the corpus get_psalm does not raise, skips
\* the absent verses and returns the present ones in citation order; for a
\* psalm number absent from the corpus get_psalm raises "not found".
C15_LookupMissAmended ==
  (PsalmSelected /\ WellFormedCitation(reference)) =>
    IF parsed.psalm_num \in DOMAIN Psalter
    THEN /\ selection.raised = ""
         /\ selection.psalm_number = parsed.psalm_num
         /\ parsed.verse_specs # << >> =>
              VerseNumbersOf(selection.verses)
                = PresentInOrder(parsed.verse_specs,
                                 DOMAIN Psalter[parsed.psalm_num].verses)
    ELSE selection.raised = "not found"

\* A well-formed citation of a psalm that the corpus lacks has been looked up.
C15_Witness ==
  /\ ppc = "selected"
  /\ reference = "Psalm 100:3c"
  /\ selection.raised = "not found"

\* C16: for every valid citation C and rubric clause R (responsively, in
\* unison, antiphonally; any letter case; optionally parenthesised),
\* parse_psalm_reference(C + ' ' + R) returns what parse_psalm_reference(C)
\* returns.
C16_RubricTransparent ==
  ppc = "parsed" =>
    \A c \in RubricBases :
       \A r \in RubricClauses :
          reference = c \o " " \o r
            => /\ ~parsed.raised
               /\ parsed = parse_psalm_reference(c)

\* A citation with an upper-case parenthesised rubric has been parsed.
C16_Witness ==
  /\ ppc = "parsed"
  /\ reference = "Psalm 23:2a-3 (IN UNISON)"
  /\ parsed.verse_specs = << << 2, "a" >>, << 3, "" >> >>

-----------------------------------------------------------------------------
(* bulletin/document/formatting.py: _split_verse_numbers *)

\* Largest number of tokens joined into one generated passage.
MaxTokens == 4

\* The characters of the lookahead (?=[A-Z\u2018\u201C\'\"(\[]) that a module
\* string can hold: the two typographic quotation marks are left out.
LookaheadSet == UpperSet \cup { "'", "\"", "(", "[" }

\* A variant of marker_digits without the lookahead.
marker_digits_any_follower(s, i, k) ==
  IF /\ k \in 1..3
     /\ i = 1 \/ CharAt(s, i - 1) \in Whitespace
     /\ i + k + 1 <= Len(s)
     /\ CharAt(s, i + k) \in Whitespace
  THEN k ELSE 0

\* The number of digits of the match of
\*   (?:^|(?<=\s))(\d{1,3})\s(?=[A-Z\u2018\u201C\'\"(\[])
\* that starts at position i and has the digit run of length k there; 0 if
\* the pattern does not match at i.
marker_digits(s, i, k) ==
  IF /\ k \in 1..3
     /\ i = 1 \/ CharAt(s, i - 1) \in Whitespace
     /\ i + k + 1 <= Len(s)
     /\ CharAt(s, i + k) \in Whitespace
     /\ CharAt(s, i + k + 1) \in LookaheadSet
  THEN k ELSE 0

marker_at(s, i) == marker_digits(s, i, digit_run(s, i))

\* pattern.finditer(text) from position i on: the matches from left to right,
\* none overlapping another; start and end are the positions of the first and
\* the last character of the match.
RECURSIVE finditer(_, _)
finditer(s, i) ==
  IF i > Len(s) THEN << >>
  ELSE IF marker_at(s, i) = 0 THEN finditer(s, i + 1)
  ELSE << [ start |-> i, end |-> i + marker_at(s, i),
            group1 |-> SubSeq(s, i, i + marker_at(s, i) - 1) ] >>
       \o finditer(s, i + marker_at(s, i) + 1)

\* The empty string in the first component stands for None.
None == ""

\* A variant of append_text that keeps only the text in front of a space.
append_text_to_space(segs, t) ==
  IF t = "" THEN segs
  ELSE IF segs # << >>
  THEN [ segs EXCEPT ![Len(segs)] = << @[1], @[2] \o str_strip(t) >> ]
  ELSE << << None, t >> >>

\* if t: append t to the last segment, or open an unnumbered segment
append_text(segs, t) ==
  IF t = "" THEN segs
  ELSE IF segs # << >>
  THEN [ segs EXCEPT ![Len(segs)] = << @[1], @[2] \o t >> ]
  ELSE << << None, t >> >>

\* A variant of split_loop that drops the text behind the last match.
RECURSIVE split_loop_no_tail(_, _, _, _)
split_loop_no_tail(s, matches, segs, last_end) ==
  IF matches = << >>
  THEN IF segs = << >> THEN << << None, s >> >> ELSE segs
  ELSE split_loop_no_tail(
         s, Tail(matches),
         Append(append_text(segs, SubSeq(s, last_end + 1, Head(matches).start - 1)),
                << Head(matches).group1, "" >>),
         Head(matches).end)

\* The loop over the matches and the code after it: segs are the segments so
\* far, last_end the position of the last character consumed.
RECURSIVE split_loop(_, _, _, _)
split_loop(s, matches, segs, last_end) ==
  IF matches = << >>
  THEN IF append_text(segs, SubSeq(s, last_end + 1, Len(s))) = << >>
       THEN << << None, s >> >>
       ELSE append_text(segs, SubSeq(s, last_end + 1, Len(s)))
  ELSE split_loop(
         s, Tail(matches),
         Append(append_text(segs, SubSeq(s, last_end + 1, Head(matches).start - 1)),
                << Head(matches).group1, "" >>),
         Head(matches).end)

\* _split_verse_numbers
_split_verse_numbers(s) == split_loop(s, finditer(s, 1), << >>, 0)

-----------------------------------------------------------------------------
(* Passages *)

Tokens == { "5", "12", " ", "\n", "Go", "out.", "'", "(" }

RECURSIVE JoinTokens(_)
JoinTokens(ts) ==
  IF ts = << >> THEN "" ELSE Head(ts) \o JoinTokens(Tail(ts))

TokenPassages ==
  { JoinTokens(ts) : ts \in UNION { [ 1..n -> Tokens ] : n \in 0..MaxTokens } }

\* Passages of one or two numbered verses separated by single spaces.
VerseNumbers == { "4", "5", "12" }

VerseProse == { "From Mount Hor they set out.", "The people spoke.", "Go" }

Verses == [ num : VerseNumbers, prose : VerseProse ]

VerseLists == UNION { [ 1..n -> Verses ] : n \in 1..2 }

RECURSIVE VersesText(_)
VersesText(vs) ==
  IF Len(vs) = 1 THEN vs[1].num \o " " \o vs[1].prose
  ELSE vs[1].num \o " " \o vs[1].prose \o " " \o VersesText(Tail(vs))

VersePassages == { VersesText(vs) : vs \in VerseLists }

OtherPassages ==
  { "In those days 2 \"Repent,\" he said.\n3\n[This is the one] 4 (Now John) 1234 And 5 so on",
    "17 'In the last days\t18 Even upon my slaves" }

Passages == TokenPassages \cup VersePassages \cup OtherPassages

-----------------------------------------------------------------------------
(* State machine of the verse-number tokenizer *)

InitVerse ==
  /\ BesidesVerseIdle
  /\ passage \in Passages
  /\ verse_segments = << >>
  /\ tpc = "text"

\* _split_verse_numbers(text)
SplitVerseNumbers ==
  /\ tpc = "text"
  /\ verse_segments' = _split_verse_numbers(passage)
  /\ tpc' = "split"
  /\ UNCHANGED << passage >>
  /\ UNCHANGED besidesVerse

NextVerse == SplitVerseNumbers

SpecVerse == InitVerse /\ [][NextVerse]_vars

-----------------------------------------------------------------------------
(* Vocabulary of the tokenizer claims *)

VerseSplit == tpc = "split"

\* The verse number followed by one space, then the segment text, over the
\* segments in order.
RECURSIVE Reassemble(_)
Reassemble(segs) ==
  IF segs = << >> THEN ""
  ELSE (IF Head(segs)[1] # None THEN Head(segs)[1] \o " " ELSE "")
       \o Head(segs)[2] \o Reassemble(Tail(segs))

\* s is, segment by segment, the verse number, one whitespace character and
\* the segment text.
RECURSIVE Reproduces(_, _)
Reproduces(segs, s) ==
  IF segs = << >> THEN s = ""
  ELSE IF Head(segs)[1] = None
  THEN /\ str_startswith(s, Head(segs)[2])
       /\ Reproduces(Tail(segs), SubSeq(s, Len(Head(segs)[2]) + 1, Len(s)))
  ELSE /\ str_startswith(s, Head(segs)[1])
       /\ Len(s) > Len(Head(segs)[1])
       /\ CharAt(s, Len(Head(segs)[1]) + 1) \in Whitespace
       /\ str_startswith(SubSeq(s, Len(Head(segs)[1]) + 2, Len(s)), Head(segs)[2])
       /\ Reproduces(Tail(segs),
                     SubSeq(s, Len(Head(segs)[1]) + Len(Head(segs)[2]) + 2, Len(s)))

\* Every whitespace character of s is a space.
OnlySpaces(s) == \A i \in 1..Len(s) : CharAt(s, i) \in Whitespace => CharAt(s, i) = " "

\* The characters that may open a verse: an uppercase letter, an opening
\* quotation mark, an opening bracket or parenthesis.
OpeningChars == UpperSet \cup { "'", "\"", "(", "[" }

\* The markers of s as <<position, number of digits>>: a number of one to
\* three digits, at the start of s or after whitespace, followed by one
\* character of followers and then an opening character.
Markers(s, followers) ==
  { m \in (1..Len(s)) \X (1..3) :
      /\ \A j \in m[1]..(m[1] + m[2] - 1) : j <= Len(s) /\ CharAt(s, j) \in DigitSet
      /\ m[1] = 1 \/ CharAt(s, m[1] - 1) \in Whitespace
      /\ m[1] + m[2] + 1 <= Len(s)
      /\ CharAt(s, m[1] + m[2]) \in followers
      /\ CharAt(s, m[1] + m[2] + 1) \in OpeningChars }

\* The numbered segments of segs as <<position of the number, number>>, the
\* first segment starting at position pos.
RECURSIVE NumberedStarts(_, _)
NumberedStarts(segs, pos) ==
  IF segs = << >> THEN {}
  ELSE IF Head(segs)[1] = None
  THEN NumberedStarts(Tail(segs), pos + Len(Head(segs)[2]))
  ELSE { << pos, Head(segs)[1] >> }
       \cup NumberedStarts(Tail(segs),
                           pos + Len(Head(segs)[1]) + 1 + Len(Head(segs)[2]))

\* The segments are numbered exactly at the markers ms of s; text in front of
\* the first marker is one unnumbered segment, no later segment is
\* unnumbered, and without a marker the one segment holds all of s.
SegmentsAtMarkers(segs, s, ms) ==
  /\ NumberedStarts(segs, 1) = { << m[1], SubSeq(s, m[1], m[1] + m[2] - 1) >> : m \in ms }
  /\ Len(segs) >= 1
  /\ \A j \in 2..Len(segs) : segs[j][1] # None
  /\ ms = {} => segs = << << None, s >> >>
  /\ \A m \in ms :
       (m[1] > 1 /\ \A o \in ms : m[1] <= o[1])
         => segs[1][1] = None /\ str_startswith(segs[1][2], SubSeq(s, 1, m[1] - 1))

-----------------------------------------------------------------------------
(* Claims about the verse-number tokenizer *)

C18_SegmentPerVerse ==
  VerseSplit =>
    \A vs \in VerseLists :
       passage = VersesText(vs)
         => verse_segments = [ i \in 1..Len(vs) |-> << vs[i].num, vs[i].prose >> ]

\* C18 (amended): the segments are, in order, one per marker; the text of the
\* last one is exactly its verse's prose, the text of every other one is its
\* verse's prose followed by the space in front of the next marker.
C18_SegmentPerVerseAmended ==
  VerseSplit =>
    \A vs \in VerseLists :
       passage = VersesText(vs)
         => verse_segments =
              [ i \in 1..Len(vs) |->
                  << vs[i].num,
                     IF i < Len(vs) THEN vs[i].prose \o " " ELSE vs[i].prose >> ]

\* The passage of the scenario has been split.
C18_Witness ==
  /\ VerseSplit
  /\ passage = "4 From Mount Hor they set out. 5 The people spoke."
  /\ verse_segments = << << "4", "From Mount Hor they set out. " >>,
                         << "5", "The people spoke." >> >>

-----------------------------------------------------------------------------
(* bulletin/sources/music_9am.py *)

\* s.rstrip(":")
RECURSIVE str_rstrip_colon(_)
str_rstrip_colon(s) ==
  IF s # "" /\ CharAt(s, Len(s)) = ":"
  THEN str_rstrip_colon(SubSeq(s, 1, Len(s) - 1))
  ELSE s

\* The parts of s between the occurrences of the character sep.
RECURSIVE str_split(_, _)
str_split(s, sep) ==
  IF \A i \in 1..Len(s) : CharAt(s, i) # sep THEN << s >>
  ELSE LET c == CHOOSE i \in 1..Len(s) :
                  /\ CharAt(s, i) = sep
                  /\ \A j \in 1..(i - 1) : CharAt(s, j) # sep
       IN << SubSeq(s, 1, c - 1) >> \o str_split(SubSeq(s, c + 1, Len(s)), sep)

\* s is one to n digits.
is_digits(s, n) == Len(s) \in 1..n /\ digit_run(s, 1) = Len(s)

\* The failed parse: None.
NoDate == [ year |-> 0, month |-> 0, day |-> 0 ]

days_in_month(year, month) ==
  IF month = 2
  THEN (IF year % 4 = 0 /\ (year % 100 # 0 \/ year % 400 = 0) THEN 29 ELSE 28)
  ELSE IF month \in { 4, 6, 9, 11 } THEN 30 ELSE 31

\* date(year, month, day), None when there is no such day
make_date(year, month, day) ==
  IF year >= 1 /\ month \in 1..12 /\ day \in 1..days_in_month(year, month)
  THEN [ year |-> year, month |-> month, day |-> day ]
  ELSE NoDate

\* datetime.strptime(s, "%Y-%m-%d").date(), given the parts of s between "-"
strptime_ymd(parts) ==
  IF /\ Len(parts) = 3
     /\ Len(parts[1]) = 4 /\ is_digits(parts[1], 4)
     /\ is_digits(parts[2], 2) /\ is_digits(parts[3], 2)
  THEN make_date(str_to_int(parts[1]), str_to_int(parts[2]), str_to_int(parts[3]))
  ELSE NoDate

\* %y: 69..99 are 1969..1999, 0..68 are 2000..2068
century(yy) == IF yy >= 69 THEN 1900 + yy ELSE 2000 + yy

\* datetime.strptime(s, "%m/%d/%Y") and, failing that, "%m/%d/%y", given the
\* parts of s between "/"
strptime_mdy(parts) ==
  IF Len(parts) = 3 /\ is_digits(parts[1], 2) /\ is_digits(parts[2], 2)
  THEN IF Len(parts[3]) = 4 /\ is_digits(parts[3], 4)
       THEN make_date(str_to_int(parts[3]), str_to_int(parts[1]), str_to_int(parts[2]))
       ELSE IF Len(parts[3]) = 2 /\ is_digits(parts[3], 2)
       THEN make_date(century(str_to_int(parts[3])), str_to_int(parts[1]),
                      str_to_int(parts[2]))
       ELSE NoDate
  ELSE NoDate

\* _parse_date
_parse_date(date_str) ==
  IF date_str = "" THEN NoDate
  ELSE IF strptime_ymd(str_split(str_strip(date_str), "-")) # NoDate
  THEN strptime_ymd(str_split(str_strip(date_str), "-"))
  ELSE strptime_mdy(str_split(str_strip(date_str), "/"))

\* all_rows[i], rows counted from 0
row_at(rows, i) == rows[i + 1]

\* row[j].strip() if j < len(row) else "", cells counted from 0
cell_at(row, j) == IF j < Len(row) THEN str_strip(row[j + 1]) ELSE ""

\* match = re.search(r'-\s*(.+)', header_text); match.group(1).strip()
label_after_dash(header_text) ==
  IF \E i \in 1..(Len(header_text) - 1) : CharAt(header_text, i) = "-"
  THEN str_strip(SubSeq(header_text,
                        1 + CHOOSE i \in 1..(Len(header_text) - 1) :
                              /\ CharAt(header_text, i) = "-"
                              /\ \A j \in 1..(i - 1) : CharAt(header_text, j) # "-",
                        Len(header_text)))
  ELSE ""

\* The liturgical label of the panel, from the second header row.
liturgical_label_of(rows, header_row, col_offset) ==
  IF header_row + 1 < Len(rows)
  THEN label_after_dash(cell_at(row_at(rows, header_row + 1), col_offset + 1))
  ELSE ""

MusicSlot(service_part, song_title, key, lead) ==
  [ service_part |-> service_part, song_title |-> song_title,
    key |-> key, lead |-> lead ]

\* What one data row appends to slots.
slot_of(part, song, key, lead) ==
  IF song # ""
  THEN << MusicSlot(str_strip(str_rstrip_colon(part)), song, key, lead) >>
  ELSE << >>

\* A variant of slot_rows that passes over a row without a service part
\* instead of stopping there.
RECURSIVE slot_rows_past_blank(_, _, _, _)
slot_rows_past_blank(rows, col_offset, i, stop) ==
  IF i >= stop THEN << >>
  ELSE IF cell_at(row_at(rows, i), col_offset) = ""
  THEN slot_rows_past_blank(rows, col_offset, i + 1, stop)
  ELSE IF str_startswith(str_lower(cell_at(row_at(rows, i), col_offset)),
                         "service part")
  THEN slot_rows_past_blank(rows, col_offset, i + 1, stop)
  ELSE slot_of(cell_at(row_at(rows, i), col_offset),
               cell_at(row_at(rows, i), col_offset + 1),
               cell_at(row_at(rows, i), col_offset + 2),
               cell_at(row_at(rows, i), col_offset + 3))
       \o slot_rows_past_blank(rows, col_offset, i + 1, stop)

\* for i in range(header_row + 2, min(header_row + 20, len(all_rows))): ...
\* from row i on, stop being the end of the range.
RECURSIVE slot_rows(_, _, _, _)
slot_rows(rows, col_offset, i, stop) ==
  IF i >= stop THEN << >>
  ELSE IF col_offset >= Len(row_at(rows, i)) THEN << >>
  ELSE IF cell_at(row_at(rows, i), col_offset) = "" THEN << >>
  ELSE IF str_startswith(str_lower(cell_at(row_at(rows, i), col_offset)),
                         "service part")
  THEN slot_rows(rows, col_offset, i + 1, stop)
  ELSE slot_of(cell_at(row_at(rows, i), col_offset),
               cell_at(row_at(rows, i), col_offset + 1),
               cell_at(row_at(rows, i), col_offset + 2),
               cell_at(row_at(rows, i), col_offset + 3))
       \o slot_rows(rows, col_offset, i + 1, stop)

min(a, b) == IF a <= b THEN a ELSE b

\* _parse_sub_table returned None.
NoSubTable == [ date |-> NoDate, liturgical_label |-> "", slots |-> << >> ]

\* _parse_sub_table from the parsed date on.
sub_table_dated(rows, header_row, col_offset, parsed_date) ==
  IF parsed_date = NoDate THEN NoSubTable
  ELSE [ date |-> parsed_date,
         liturgical_label |-> liturgical_label_of(rows, header_row, col_offset),
         slots |-> slot_rows(rows, col_offset, header_row + 2,
                             min(header_row + 20, Len(rows))) ]

\* _parse_sub_table
_parse_sub_table(rows, header_row, col_offset) ==
  IF col_offset + 3 >= Len(row_at(rows, header_row)) THEN NoSubTable
  ELSE sub_table_dated(rows, header_row, col_offset,
                       _parse_date(cell_at(row_at(rows, header_row), col_offset + 3)))

\* The 3 horizontal column offsets for sub-tables
col_offsets == << 0, 5, 10 >>

\* if st: results.append(st)
plan_found(st) == IF st # NoSubTable THEN << st >> ELSE << >>

\* The body of the two loops of _find_sub_tables for one row and one offset.
sub_table_at(rows, row_idx, col_offset) ==
  IF col_offset >= Len(row_at(rows, row_idx)) THEN << >>
  ELSE IF str_startswith(cell_at(row_at(rows, row_idx), col_offset),
                         "Service Planner:")
  THEN plan_found(_parse_sub_table(rows, row_idx, col_offset))
  ELSE << >>

\* A variant of find_from that gives up at the first panel without a plan.
RECURSIVE find_from_until_failure(_, _)
find_from_until_failure(rows, k) ==
  IF k >= 3 * Len(rows) THEN << >>
  ELSE IF /\ col_offsets[(k % 3) + 1] < Len(row_at(rows, k \div 3))
          /\ str_startswith(cell_at(row_at(rows, k \div 3), col_offsets[(k % 3) + 1]),
                            "Service Planner:")
          /\ sub_table_at(rows, k \div 3, col_offsets[(k % 3) + 1]) = << >>
  THEN << >>
  ELSE sub_table_at(rows, k \div 3, col_offsets[(k % 3) + 1])
       \o find_from_until_failure(rows, k + 1)

\* The two loops of _find_sub_tables from the k-th (row, offset) pair on.
RECURSIVE find_from(_, _)
find_from(rows, k) ==
  IF k >= 3 * Len(rows) THEN << >>
  ELSE sub_table_at(rows, k \div 3, col_offsets[(k % 3) + 1])
       \o find_from(rows, k + 1)

\* _find_sub_tables
_find_sub_tables(rows) == find_from(rows, 0)

-----------------------------------------------------------------------------
(* Grids *)

\* The four cells of one panel in one row of the grid.
MarkerBlock(date_str) == << "Service Planner: This Week", "", "Date:", date_str >>

HeaderBlock == << "Service Part", "Song (9 am) - Lent 1A", "Key", "Lead" >>

BlankBlock == << "", "", "", "" >>

\* A marker whose row ends in front of the date cell.
CutBlock == << "Service Planner: Next Week", "", "Date:" >>

Processional == << "Processional:", "Build My Life", "G", "Steph" >>
Sequence == << "Sequence: ", " Holy Spirit H516", "", "" >>
Offertory == << "Offertory:", "", "", "" >>

\* The blocks of one panel column from the top row down.
PanelColumns ==
  { << MarkerBlock("2026-02-15"), HeaderBlock, Processional, Sequence, BlankBlock >>,
    << MarkerBlock("2/22/2026"), HeaderBlock, Offertory, Processional, BlankBlock >>,
    << MarkerBlock(" 03/01/26 "), HeaderBlock, Sequence, BlankBlock, Processional >>,
    << MarkerBlock(""), HeaderBlock, Processional, Sequence, BlankBlock >>,
    << MarkerBlock("Feb 15"), HeaderBlock, Sequence, Offertory, BlankBlock >>,
    << MarkerBlock("2026-02-30"), HeaderBlock, Processional, BlankBlock, BlankBlock >>,
    << CutBlock, HeaderBlock, Processional, Sequence, BlankBlock >>,
    << BlankBlock, BlankBlock, BlankBlock, BlankBlock, BlankBlock >>,
    << BlankBlock, MarkerBlock("2026-03-08"), HeaderBlock, Processional, BlankBlock >>,
    << MarkerBlock("13/01/2026"), BlankBlock, MarkerBlock("2026-03-15"), HeaderBlock,
       Sequence >>,
    << MarkerBlock("2026-02-15"), HeaderBlock, Processional, MarkerBlock("Feb 15"),
       HeaderBlock >> }

\* One row of the grid: the blocks side by side with an empty cell between
\* two panels; a block of fewer than four cells ends the row.
grid_row(b0, b1, b2) ==
  IF Len(b0) < 4 THEN b0
  ELSE IF Len(b1) < 4 THEN b0 \o << "" >> \o b1
  ELSE b0 \o << "" >> \o b1 \o << "" >> \o b2

Grid(c0, c1, c2) == [ i \in 1..Len(c0) |-> grid_row(c0[i], c1[i], c2[i]) ]

\* A grid whose marker stands one cell to the right of a panel offset, the
\* grid of a CSV export with empty lines, and a grid with a marker in padded
\* and one in lower-case text.
OtherGrids ==
  { << << "", "Service Planner: This Week", "", "Date:", "2026-02-15" >>,
       << "", "Service Part", "Song (9 am) - Lent 1A", "Key", "Lead" >>,
       << "", "Processional:", "Build My Life", "G", "Steph" >> >>,
    << << >>,
       << "Service Planner: This Week", "", "Date:", "2026-02-15" >>,
       << "Service Part", "Song (9 am) - Easter Day A - Celebration", "Key", "Lead" >>,
       << "Processional:", "Build My Life", "G", "Steph" >>,
       << >> >>,
    << << " Service Planner: Padded ", "", "Date:", "2026-03-22", "",
          "service planner: lower", "", "Date:", "2026-03-29" >>,
       << "Service Part", "Song (9 am) -", "Key", "Lead", "",
          "Service Part", "Song (9 am) - Lent 5A", "Key", "Lead" >>,
       << "Processional:", "Build My Life", "G", "Steph", "",
          "Processional:", "Holy Spirit H516", "D", "Sam" >> >> }

\* The longest run of hand-picked rows at the head of a tall panel.
MaxPrefixRows == 2

\* A data row whose service part begins like the column-header label, and
\* the column-header label in other letters.
ServiceParticipation == << "Service Participation:", "Here I Am, Lord", "F", "Choir" >>
HeaderVariant == << "SERVICE PART:", "Song", "Key", "Lead" >>

\* A row that ends in front of the panel.
ShortRow == << >>

PrefixBlocks ==
  { Processional, Offertory, HeaderBlock, HeaderVariant, ServiceParticipation,
    BlankBlock, ShortRow, MarkerBlock("2026-03-08") }

Prefixes == UNION { [ 1..n -> PrefixBlocks ] : n \in 0..MaxPrefixRows }

\* The i-th of the numbered data rows that fill a tall panel.
Filler(i) == << "Communion " \o ToString(i) \o ":", "Hymn " \o ToString(i), "C", "" >>

\* How many numbered rows follow the prefix: none, one, or enough to pass
\* the end of the rows that _parse_sub_table looks at.
FillerCounts == { 0, 1, 16, 17, 18, 19 }

\* A row of a tall panel at offset 0 or 5.
tall_row(col_offset, block) ==
  IF block = ShortRow THEN ShortRow
  ELSE IF col_offset = 0 THEN block
  ELSE BlankBlock \o << "" >> \o block

\* One panel of marker, header, prefix and numbered rows.
TallGrid(col_offset, prefix, n) ==
  [ i \in 1..(2 + Len(prefix) + n) |->
      tall_row(col_offset,
               IF i = 1 THEN MarkerBlock("2026-02-15")
               ELSE IF i = 2 THEN HeaderBlock
               ELSE IF i <= 2 + Len(prefix) THEN prefix[i - 2]
               ELSE Filler(i - 2 - Len(prefix))) ]

TallGrids ==
  { TallGrid(c, prefix, n) : c \in { 0, 5 }, prefix \in Prefixes, n \in FillerCounts }

Grids ==
  { Grid(c0, c1, c2) : c0 \in PanelColumns, c1 \in PanelColumns, c2 \in PanelColumns }
  \cup OtherGrids \cup TallGrids

-----------------------------------------------------------------------------
(* State machine of the music grid reader *)

InitGrid ==
  /\ BesidesGridIdle
  /\ all_rows \in Grids
  /\ sub_tables = << >>
  /\ gpc = "grid"

\* sub_tables = _find_sub_tables(all_rows)
FindSubTables ==
  /\ gpc = "grid"
  /\ sub_tables' = _find_sub_tables(all_rows)
  /\ gpc' = "found"
  /\ UNCHANGED << all_rows >>
  /\ UNCHANGED besidesGrid

NextGrid == FindSubTables

SpecGrid == InitGrid /\ [][NextGrid]_vars

-----------------------------------------------------------------------------
(* Claims about the music grid reader *)

GridRead == gpc = "found"

\* The places of the marker cells of a grid: << row, column offset >>, both
\* counted from 0, of every cell at offset 0, 5 or 10 whose text begins
\* with "Service Planner:".
MarkerCells(rows) ==
  { m \in (0..(Len(rows) - 1)) \X { 0, 5, 10 } :
      /\ m[2] < Len(rows[m[1] + 1])
      /\ str_startswith(str_strip(rows[m[1] + 1][m[2] + 1]), "Service Planner:") }

\* The date cell of marker m is there and parses.
DateCellParses(rows, m) ==
  /\ m[2] + 3 < Len(rows[m[1] + 1])
  /\ _parse_date(str_strip(rows[m[1] + 1][m[2] + 4])) # NoDate

DatedMarkers(rows) == { m \in MarkerCells(rows) : DateCellParses(rows, m) }

DatelessMarkers(rows) == MarkerCells(rows) \ DatedMarkers(rows)

\* Marker n is met before marker m: rows from the top, offsets from the left.
ScannedBefore(n, m) == n[1] < m[1] \/ (n[1] = m[1] /\ n[2] < m[2])

\* The place in the list of plans of the plan of a marker with a date.
PlanIndex(rows, m) ==
  1 + Cardinality({ n \in DatedMarkers(rows) : ScannedBefore(n, m) })

\* The grid with the date cell of marker m holding date_str.
WithDateCell(rows, m, date_str) ==
  [ rows EXCEPT ![m[1] + 1] =
      [ j \in 1..(IF Len(@) > m[2] + 4 THEN Len(@) ELSE m[2] + 4) |->
          IF j = m[2] + 4 THEN date_str
          ELSE IF j <= Len(@) THEN @[j] ELSE "" ] ]

\* The list without its k-th element.
Without(seq, k) == SubSeq(seq, 1, k - 1) \o SubSeq(seq, k + 1, Len(seq))

RepairDates == { "2026-04-05", "4/12/2026" }

\* One plan for every marker with a date that parses, in scan order, and no
\* other plan.
PlanPerDatedMarker(rows, plans) ==
  /\ Len(plans) = Cardinality(DatedMarkers(rows))
  /\ \A m \in DatedMarkers(rows) :
       plans[PlanIndex(rows, m)].date
         = _parse_date(str_strip(rows[m[1] + 1][m[2] + 4]))

\* The plans of the other panels are what they are when the panel of marker
\* m has a date.
OthersUnchanged(rows, plans, m) ==
  \A d \in RepairDates :
    Without(_find_sub_tables(WithDateCell(rows, m, d)),
            PlanIndex(rows, m)) = plans

\* C20: _find_sub_tables returns one plan for every marker cell whose date
\* cell parses and none for a marker whose date cell is missing, blank or
\* unparseable; such a panel leaves the call returning normally with the
\* plans of the other panels as they are when that panel has a date.
C20_FailureIsolation ==
  GridRead =>
    /\ PlanPerDatedMarker(all_rows, sub_tables)
    /\ \A m \in DatelessMarkers(all_rows) : OthersUnchanged(all_rows, sub_tables, m)

\* A grid read with a panel that has no date in front of one that has, whose
\* plan holds slots.
C20_Witness ==
  /\ GridRead
  /\ \E m \in DatelessMarkers(all_rows) : \E n \in DatedMarkers(all_rows) :
       /\ ScannedBefore(m, n)
       /\ sub_tables[PlanIndex(all_rows, n)].slots # << >>

\* The rows _parse_sub_table looks at end in front of the row this many
\* rows below the marker.
LookaheadRows == 20

\* The stripped cell k columns right of the service-part cell of row i in
\* the panel column of marker m.
PanelCell(rows, m, i, k) == cell_at(row_at(rows, i), m[2] + k)

\* The rows of the panel of marker m that are scanned: from two rows below
\* the marker, within the lookahead, up to the first row without a service
\* part.
ScannedRows(rows, m) ==
  { i \in (m[1] + 2)..(min(m[1] + LookaheadRows, Len(rows)) - 1) :
      \A j \in (m[1] + 2)..i : PanelCell(rows, m, j, 0) # "" }

\* The service part is the column-header label.
IsHeaderLabel(part) ==
  str_lower(str_strip(str_rstrip_colon(part))) = "service part"

\* The service part begins with the column-header label, in any letters.
BeginsWithHeaderLabel(part) == str_startswith(str_lower(part), "service part")

\* The scanned rows that contribute a slot. In the amended reading the rows
\* passed over are those that begin with the column-header label.
ContributingRows(rows, m, amended) ==
  { i \in ScannedRows(rows, m) :
      /\ PanelCell(rows, m, i, 1) # ""
      /\ IF amended THEN ~ BeginsWithHeaderLabel(PanelCell(rows, m, i, 0))
         ELSE ~ IsHeaderLabel(PanelCell(rows, m, i, 0)) }

\* slots holds one slot for every contributing row, in row order, of the
\* service part without trailing colons and the next three cells.
SlotsFromRows(rows, m, slots, amended) ==
  /\ Len(slots) = Cardinality(ContributingRows(rows, m, amended))
  /\ \A i \in ContributingRows(rows, m, amended) :
       slots[Cardinality({ j \in ContributingRows(rows, m, amended) : j <= i })]
         = [ service_part |-> str_strip(str_rstrip_colon(PanelCell(rows, m, i, 0))),
             song_title |-> PanelCell(rows, m, i, 1),
             key |-> PanelCell(rows, m, i, 2),
             lead |-> PanelCell(rows, m, i, 3) ]

\* C21: the slots of a panel with a valid date come from the rows from two
\* rows below the marker, in row order, within the lookahead and up to the
\* first row with an empty service part; a row whose service part is the
\* column-header label is passed over, and every other row gives a slot
\* exactly when its song title is not empty.
C21_SlotRows ==
  GridRead =>
    \A m \in DatedMarkers(all_rows) :
      SlotsFromRows(all_rows, m, sub_tables[PlanIndex(all_rows, m)].slots, FALSE)

\* C21 amended: as C21, the rows passed over being all those whose service
\* part begins with "service part" in any letters.
C21_SlotRowsAmended ==
  GridRead =>
    \A m \in DatedMarkers(all_rows) :
      SlotsFromRows(all_rows, m, sub_tables[PlanIndex(all_rows, m)].slots, TRUE)

\* A panel read whose scanned rows hold a data row with a song and a service
\* part that begins like the header label, followed by a row that gives a
\* slot, and that has rows beyond the lookahead.
C21_Witness ==
  /\ GridRead
  /\ \E m \in DatedMarkers(all_rows) :
       /\ \E i \in ScannedRows(all_rows, m) :
            /\ BeginsWithHeaderLabel(PanelCell(all_rows, m, i, 0))
            /\ ~ IsHeaderLabel(PanelCell(all_rows, m, i, 0))
            /\ PanelCell(all_rows, m, i, 1) # ""
       /\ sub_tables[PlanIndex(all_rows, m)].slots # << >>
       /\ Len(all_rows) > m[1] + LookaheadRows

\* The rows of the panel of marker m itself: the rows below its header row
\* down to the row before the next marker in the same column.
OwnRows(rows, m) ==
  { i \in (m[1] + 2)..(Len(rows) - 1) :
      \A j \in (m[1] + 1)..i : << j, m[2] >> \notin MarkerCells(rows) }

\* slots holds the slots of the rows of the set from, in row order.
SlotsOfRowSet(rows, m, slots, from) ==
  /\ Len(slots) = Cardinality(from)
  /\ \A i \in from :
       slots[Cardinality({ j \in from : j <= i })]
         = [ service_part |-> str_strip(str_rstrip_colon(PanelCell(rows, m, i, 0))),
             song_title |-> PanelCell(rows, m, i, 1),
             key |-> PanelCell(rows, m, i, 2),
             lead |-> PanelCell(rows, m, i, 3) ]

\* C28: every slot of a plan comes from a data row of the plan's own panel,
\* a row between its marker and the next marker in the same column; the
\* marker row, header row and data rows of a lower panel in the same column
\* give the panel above no slot, with or without a blank row between them.
C28_PanelsIndependent ==
  GridRead =>
    \A m \in DatedMarkers(all_rows) :
      SlotsOfRowSet(all_rows, m, sub_tables[PlanIndex(all_rows, m)].slots,
                    ContributingRows(all_rows, m, TRUE) \cap OwnRows(all_rows, m))

-----------------------------------------------------------------------------
(* ServiceMusic9am.get_slot, bulletin/sources/music_9am.py *)

\* get_slot returned None.
NoSlot == << >>

\* The loop of get_slot over the slots that are left.
RECURSIVE get_slot_loop(_, _)
get_slot_loop(slots_left, part_lower) ==
  IF slots_left = << >> THEN NoSlot
  ELSE IF str_strip(str_lower(Head(slots_left).service_part)) = part_lower
  THEN Head(slots_left)
  ELSE IF str_contains(str_lower(Head(slots_left).service_part), part_lower)
  THEN Head(slots_left)
  ELSE get_slot_loop(Tail(slots_left), part_lower)

\* ServiceMusic9am.get_slot
get_slot(slots_of_plan, name) ==
  get_slot_loop(slots_of_plan, str_strip(str_lower(name)))

\* The longest list of slots of a plan.
MaxSlots == 2

ServiceParts == { "Communion", "Communion 1", "Processional", "Song of Praise",
                  "Post-Communion" }

SlotLists ==
  UNION { [ 1..n -> { MusicSlot(p, "Hymn for " \o p, "G", "") : p \in ServiceParts } ] :
            n \in 0..MaxSlots }

PartNames == { "Communion", "communion ", "COMMUNION 1", "Praise", "Sequence", "",
               " Processional" }

-----------------------------------------------------------------------------
(* State machine of the slot lookup *)

InitSlot ==
  /\ BesidesSlotIdle
  /\ plan_slots \in SlotLists
  /\ part_name \in PartNames
  /\ got_slot = NoSlot
  /\ spc = "asked"

\* got_slot = plan.get_slot(part_name)
GetSlot ==
  /\ spc = "asked"
  /\ got_slot' = get_slot(plan_slots, part_name)
  /\ spc' = "answered"
  /\ UNCHANGED << plan_slots, part_name >>
  /\ UNCHANGED besidesSlot

NextSlot == GetSlot

SpecSlot == InitSlot /\ [][NextSlot]_vars

-----------------------------------------------------------------------------
(* Claims about the slot lookup *)

SlotAnswered == spc = "answered"

\* The query without case and surrounding spaces.
Query(name) == str_strip(str_lower(name))

\* The name of the slot holds the query, case ignored.
NameContains(slot, name) == str_contains(str_lower(slot.service_part), Query(name))

\* The name of the slot is the query, case and surrounding spaces ignored.
NameEquals(slot, name) == str_strip(str_lower(slot.service_part)) = Query(name)

SlotsOf(slot_list) == { slot_list[i] : i \in 1..Len(slot_list) }

\* C22: get_slot returns None exactly when no slot's name contains the
\* query, case ignored; a slot it returns is one of the plan whose name
\* contains the query; and when some slot's name equals the query it returns
\* a slot of that name, not one that merely contains the query.
C22_ExactPreferred ==
  SlotAnswered =>
    /\ got_slot = NoSlot <=> \A s \in SlotsOf(plan_slots) : ~ NameContains(s, part_name)
    /\ got_slot # NoSlot =>
         /\ got_slot \in SlotsOf(plan_slots)
         /\ NameContains(got_slot, part_name)
         /\ (\E s \in SlotsOf(plan_slots) : NameEquals(s, part_name))
              => NameEquals(got_slot, part_name)

-----------------------------------------------------------------------------
(* bulletin/sources/scripture.py: fetch_readings *)

ScriptureReading(ref, paragraphs, poetry_lines, has_poetry) ==
  [ reference |-> ref, paragraphs |-> paragraphs, poetry_lines |-> poetry_lines,
    has_poetry |-> has_poetry ]

\* dict.get gave None.
NoReading == ScriptureReading("", << >>, << >>, FALSE)

\* fetch_reading: the reading the upstream serves for ref, or an exception
\* (requests error, HTTP status, page without bibletext) when it serves none.
fetch_reading(ref, served) ==
  IF ref \in served
  THEN [ raised |-> FALSE,
         reading |-> ScriptureReading(ref, << "1 Text of " \o ref >>, << >>, FALSE) ]
  ELSE [ raised |-> TRUE, reading |-> NoReading ]

\* The placeholder fetch_readings stores when fetch_reading raised.
placeholder_reading(ref) ==
  ScriptureReading(ref, << "[Reading text not available: " \o ref \o "]" >>,
                   << >>, FALSE)

\* try: results[label] = fetch_reading(ref) / except Exception: placeholder
fetched_or_placeholder(ref, outcome) ==
  IF outcome.raised THEN placeholder_reading(ref) ELSE outcome.reading

\* results[label] = value
dict_set(d, label, value) ==
  [ l \in (DOMAIN d) \cup { label } |-> IF l = label THEN value ELSE d[l] ]

\* A variant of fetch_loop that gives up at the first label whose fetch fails.
RECURSIVE fetch_loop_fail_fast(_, _, _)
fetch_loop_fail_fast(references, served, results) ==
  IF references = << >> THEN results
  ELSE IF fetch_reading(Head(references)[2], served).raised THEN results
  ELSE fetch_loop_fail_fast(Tail(references), served,
                            dict_set(results, Head(references)[1],
                                     fetch_reading(Head(references)[2], served).reading))

\* for i, (label, ref) in enumerate(references.items()): ...
RECURSIVE fetch_loop(_, _, _)
fetch_loop(references, served, results) ==
  IF references = << >> THEN results
  ELSE fetch_loop(Tail(references), served,
                  dict_set(results, Head(references)[1],
                           fetched_or_placeholder(
                             Head(references)[2],
                             fetch_reading(Head(references)[2], served))))

\* fetch_readings; references is the dict as its (label, reference) items.
fetch_readings(references, served) == fetch_loop(references, served, << >>)

\* generate.py: refs_to_fetch
refs_to_fetch(schedule) ==
  (IF schedule.reading # "" THEN << << "reading", schedule.reading >> >> ELSE << >>)
  \o (IF schedule.gospel # "" THEN << << "gospel", schedule.gospel >> >> ELSE << >>)

\* generate.py: scripture_readings = {}; if refs_to_fetch: fetch_readings(...)
scripture_readings(schedule, served) ==
  IF refs_to_fetch(schedule) # << >>
  THEN fetch_readings(refs_to_fetch(schedule), served)
  ELSE << >>

-----------------------------------------------------------------------------
(* bulletin/document/builder.py: _prepare_word_of_god_data *)

\* s.replace(old, new), old not empty
RECURSIVE str_replace(_, _, _)
str_replace(s, old, new) ==
  IF Len(s) < Len(old) THEN s
  ELSE IF SubSeq(s, 1, Len(old)) = old
  THEN new \o str_replace(SubSeq(s, Len(old) + 1, Len(s)), old, new)
  ELSE SubSeq(s, 1, 1) \o str_replace(SubSeq(s, 2, Len(s)), old, new)

\* re.split(r"[\n\r]+", s)[0]
first_line(s) ==
  IF \E i \in 1..Len(s) : CharAt(s, i) = "\n"
  THEN SubSeq(s, 1, (CHOOSE i \in 1..Len(s) :
                       /\ CharAt(s, i) = "\n"
                       /\ \A j \in 1..(i - 1) : CharAt(s, j) # "\n") - 1)
  ELSE s

\* The alternatives of the pattern that cuts the rubric off the psalm field.
PsalmFieldKeywords == { "responsively", "unison", "in unison", "antiphonally" }

\* The positions at which a match of
\* r"\s+(responsively|unison|in unison|antiphonally).*$" can begin.
field_rubric_starts(s) ==
  { i \in 1..Len(s) :
      /\ CharAt(s, i) \in Whitespace
      /\ \E j \in (i + 1)..(i + whitespace_run(s, i)) :
           \E kw \in PsalmFieldKeywords :
             str_startswith(str_lower(SubSeq(s, j, Len(s))), kw) }

\* re.sub(r"\s+(responsively|unison|in unison|antiphonally).*$", "", s,
\*        flags=re.IGNORECASE)
sub_field_rubric(s) ==
  IF field_rubric_starts(s) = {} THEN s
  ELSE SubSeq(s, 1, (CHOOSE i \in field_rubric_starts(s) :
                       \A k \in field_rubric_starts(s) : i <= k) - 1)

\* psalm_ref of _prepare_word_of_god_data
clean_psalm_ref(psalm_raw) ==
  str_strip(sub_field_rubric(str_strip(first_line(psalm_raw))))

\* try: psalm_text = get_psalm(psalm_ref).to_lines() / except: psalm_text = []
psalm_text_of(psalm_ref, psalm_selection) ==
  IF psalm_ref = "" THEN << >>
  ELSE IF psalm_selection.raised # "" THEN << >>
  ELSE to_lines(psalm_selection.verses)

\* BulletinBuilder._get_psalm_rubric
_get_psalm_rubric(psalm_field) ==
  IF str_contains(str_lower(psalm_field), "responsiv")
  THEN "Read responsively by whole verse."
  ELSE IF str_contains(str_lower(psalm_field), "antiphon") THEN ""
  ELSE "Read in unison."

\* reading or ref: the ScriptureReading, or the bare citation when
\* dict.get gave None.
reading_or_ref(reading, ref) ==
  IF reading = NoReading
  THEN [ is_reading |-> FALSE, text |-> ref, reading |-> NoReading ]
  ELSE [ is_reading |-> TRUE, text |-> "", reading |-> reading ]

\* self.scripture.get(label)
scripture_get(readings, label) ==
  IF label \in DOMAIN readings THEN readings[label] ELSE NoReading

\* gospel_ref.split()[0] if gospel_ref else ""; the schedule holds stripped
\* cells, so a gospel_ref that is not empty begins with its first word.
first_word(s) ==
  IF \E i \in 1..Len(s) : CharAt(s, i) \in Whitespace
  THEN SubSeq(s, 1, (CHOOSE i \in 1..Len(s) :
                       /\ CharAt(s, i) \in Whitespace
                       /\ \A j \in 1..(i - 1) : CharAt(s, j) \notin Whitespace) - 1)
  ELSE s

\* load_pop_forms(): the forms of prayers/pop_forms.yaml, here two forms of
\* two elements each.
pop_forms ==
  [ form_I |->
      << [ type |-> "leader", text |-> "For {bishop} our Bishop, and {clergy_names}." ],
         [ type |-> "bidding", leader_text |-> "For {parish_ministries}.",
           people_text |-> "Lord, have mercy." ] >>,
    form_VI |->
      << [ type |-> "leader", text |-> "For {presiding_bishop}; for {departed}" ],
         [ type |-> "rubric", text |-> "Silence may be kept." ] >> ]

\* load_staff().get("liturgical_names", {})
liturgical_names ==
  [ presiding_bishop |-> "Sean", bishop |-> "George",
    clergy_first_names |-> << "Andrew", "Lorenzo" >> ]

\* ", ".join(names)
RECURSIVE str_join_comma(_)
str_join_comma(names) ==
  IF names = << >> THEN ""
  ELSE IF Len(names) = 1 THEN names[1]
  ELSE names[1] \o ", " \o str_join_comma(Tail(names))

\* liturgical_names.get(key, default)
names_get(key, default) ==
  IF key \in DOMAIN liturgical_names THEN liturgical_names[key] ELSE default

\* subs of _prepare_pop_elements, as its (placeholder, value) items.
subs(parish_ministries) ==
  << << "{presiding_bishop}", names_get("presiding_bishop", "N.") >>,
     << "{bishop}", names_get("bishop", "N.") >>,
     << "{bishop_coadjutor}", names_get("bishop_coadjutor", "") >>,
     << "{clergy_names}", str_join_comma(names_get("clergy_first_names", << >>)) >>,
     << "{president}", names_get("president", "N.") >>,
     << "{governor}", names_get("governor", "N.") >>,
     << "{mayor}", names_get("mayor", "N.") >>,
     << "{parish_ministries}", parish_ministries >>,
     << "{departed}", "" >> >>

\* for placeholder, value in subs.items(): s = s.replace(placeholder, value)
RECURSIVE substitute(_, _)
substitute(s, items) ==
  IF items = << >> THEN s
  ELSE substitute(str_replace(s, Head(items)[1], Head(items)[2]), Tail(items))

\* new_elem = dict(elem) with its text fields substituted
new_elem(elem, items) ==
  [ f \in DOMAIN elem |->
      IF f \in { "text", "leader_text", "people_text" }
      THEN substitute(elem[f], items) ELSE elem[f] ]

\* BulletinBuilder._prepare_pop_elements
_prepare_pop_elements(form_key, parish_ministries) ==
  IF form_key \notin DOMAIN pop_forms
  THEN << [ type |-> "leader",
            text |-> "[Prayers of the People form '" \o form_key \o "' not found]" ] >>
  ELSE [ i \in 1..Len(pop_forms[form_key]) |->
           new_elem(pop_forms[form_key][i], subs(parish_ministries)) ]

\* The builder is made with this parish_ministries text.
ParishMinistries == "the Altar Guild"

\* The dict _prepare_word_of_god_data returns, for a builder without music
\* data and clergy rota (processional, song_of_praise, sequence_hymn are
\* None, preacher is "") and before resolve_all (no wreath verse, no
\* penitential sentence).
word_of_god_dict(schedule, readings, r, psalm_ref, psalm_text) ==
  [ processional |-> None,
    song_of_praise |-> None,
    sequence_hymn |-> None,
    collect_text |-> "[Collect of the Day]",
    reading_1_ref |-> schedule.reading,
    reading_1_text |-> reading_or_ref(scripture_get(readings, "reading"),
                                      schedule.reading),
    psalm_ref |-> psalm_ref,
    psalm_rubric |-> _get_psalm_rubric(schedule.psalm),
    psalm_text |-> psalm_text,
    gospel_ref |-> schedule.gospel,
    gospel_book |-> first_word(schedule.gospel),
    gospel_text |-> reading_or_ref(scripture_get(readings, "gospel"),
                                   schedule.gospel),
    preacher |-> "",
    pop_elements |-> _prepare_pop_elements(
                       _get_pop_form_key(schedule.pop_form, schedule.title, r),
                       ParishMinistries),
    pop_concluding_rubric |-> "The Celebrant concludes with a suitable Collect.",
    advent_wreath_verse |-> None,
    advent_hymnal_ref |-> "#56 (Hymnal 1982)",
    penitential_sentence |-> None ]

\* A variant of _prepare_word_of_god_data that lets the exception of
\* get_psalm through.
_prepare_word_of_god_data_psalm_fatal(schedule, readings, r) ==
  IF clean_psalm_ref(schedule.psalm) # ""
     /\ get_psalm(clean_psalm_ref(schedule.psalm)).raised # ""
  THEN [ raised |-> TRUE, data |-> << >> ]
  ELSE [ raised |-> FALSE,
         data |-> word_of_god_dict(
                    schedule, readings, r, clean_psalm_ref(schedule.psalm),
                    psalm_text_of(clean_psalm_ref(schedule.psalm),
                                  get_psalm(clean_psalm_ref(schedule.psalm)))) ]

\* BulletinBuilder._prepare_word_of_god_data, with self.schedule,
\* self.scripture and self.rules as parameters.
_prepare_word_of_god_data(schedule, readings, r) ==
  [ raised |-> FALSE,
    data |-> word_of_god_dict(
               schedule, readings, r, clean_psalm_ref(schedule.psalm),
               psalm_text_of(clean_psalm_ref(schedule.psalm),
                             get_psalm(clean_psalm_ref(schedule.psalm)))) ]

-----------------------------------------------------------------------------
(* Services *)

ServiceDays ==
  { << "Second Sunday in Lent", "Violet", "", "I" >>,
    << "First Sunday in Lent", "Violet", "", "VI (w/ confession)" >>,
    << "Easter Day", "White", "", "VI (w/ confession)" >>,
    << "Proper 15", "Green", "", "II" >>,
    << "First Sunday of Advent", "Violet", "", "I" >> }

ReadingFields == { "Genesis 12:1-4a", "" }

GospelFields == { "John 3:1-17", "" }

\* Psalm cells: citations of the psalter, with and without a rubric, a psalm
\* the psalter does not hold, a text that is no psalm citation, no psalm.
PsalmFields ==
  { "Psalm 23", "Psalm 23:1-2\nunison", "Psalm 117 responsively",
    "Psalm 23 Antiphonally", "Psalm 100", "Psalm 100:1-2 responsively",
    "Canticle 15", "" }

Schedules ==
  { [ title |-> d[1], color |-> d[2], notes |-> d[3], pop_form |-> d[4],
      reading |-> rd, psalm |-> ps, gospel |-> gs ] :
      d \in ServiceDays, rd \in ReadingFields, ps \in PsalmFields, gs \in GospelFields }

-----------------------------------------------------------------------------
(* The headings of the Word of God section
   (src/bulletin/document/sections/word_of_god.py) *)

\* doc.add_paragraph(text, style="Heading") and style="Heading 2"
add_heading(text) == << [ style |-> "Heading", text |-> text ] >>

add_heading2(text) == << [ style |-> "Heading 2", text |-> text ] >>

_add_confession == add_heading2("Confession of Sin")

_add_standard_opening(r) ==
  add_heading("The Word of God") \o add_heading2("Processional")
    \o add_heading2("Opening Acclamation") \o add_heading2(r.song_of_praise_label)

_add_penitential_order(r) ==
  add_heading("A Penitential Order") \o add_heading2("Processional")
    \o add_heading2("Opening Acclamation") \o _add_confession
    \o add_heading("") \o add_heading("The Word of God") \o add_heading("")
    \o add_heading2("Kyrie")

\* From the Collect of the Day to the Prayers of the People.
collect_to_prayers(data) ==
  add_heading2("Collect of the Day") \o add_heading2("Children's Sermon")
    \o add_heading2("The Scriptures: " \o data.reading_1_ref)
    \o add_heading2(data.psalm_ref)
    \o add_heading2("Sequence Hymn")
    \o add_heading2("The Gospel: " \o data.gospel_ref)
    \o add_heading2("Sermon") \o add_heading2("The Nicene Creed")
    \o add_heading2("Prayers of the People")

\* A variant of add_word_of_god that adds the Confession after the Prayers
\* of the People whatever the rules say.
add_word_of_god_always_confess(r, data) ==
  (IF r.use_penitential_order THEN _add_penitential_order(r)
   ELSE _add_standard_opening(r))
    \o collect_to_prayers(data)
    \o _add_confession
    \o add_heading2("The Peace")

\* The paragraphs of style Heading and Heading 2 that add_word_of_god adds.
add_word_of_god(r, data) ==
  (IF r.use_penitential_order THEN _add_penitential_order(r)
   ELSE _add_standard_opening(r))
    \o collect_to_prayers(data)
    \o (IF ~ r.no_confession_after_pop THEN _add_confession ELSE << >>)
    \o add_heading2("The Peace")

-----------------------------------------------------------------------------
(* State machine of the Word of God data *)

InitWord ==
  /\ BesidesWordIdle
  /\ sched \in Schedules
  /\ upstream \in SUBSET ((ReadingFields \cup GospelFields) \ { "" })
  /\ scripture = << >>
  /\ wog_data = NoData
  /\ doc = << >>
  /\ wpc = "scheduled"

\* generate.py, step 3: fetch the readings of the schedule.
FetchReadings ==
  /\ wpc = "scheduled"
  /\ scripture' = scripture_readings(sched, upstream)
  /\ wpc' = "fetched"
  /\ UNCHANGED << sched, upstream, wog_data, doc >>
  /\ UNCHANGED besidesWord

\* BulletinBuilder(...)._prepare_word_of_god_data(), the builder made with
\* the readings fetched or, before any fetch, with the empty dict.
PrepareWordOfGodData ==
  /\ wpc \in { "scheduled", "fetched" }
  /\ wog_data' = _prepare_word_of_god_data(
                   sched, scripture,
                   get_seasonal_rules(sched.title, sched.color, sched.notes,
                                      sched.pop_form))
  /\ wpc' = "prepared"
  /\ UNCHANGED << sched, upstream, scripture, doc >>
  /\ UNCHANGED besidesWord

\* builder.build, step 3: add_word_of_god(doc, self.rules, wog_data)
AddWordOfGod ==
  /\ wpc = "prepared"
  /\ ~ wog_data.raised
  /\ doc' = add_word_of_god(
               get_seasonal_rules(sched.title, sched.color, sched.notes,
                                  sched.pop_form),
               wog_data.data)
  /\ wpc' = "written"
  /\ UNCHANGED << sched, upstream, scripture, wog_data >>
  /\ UNCHANGED besidesWord

NextWord == FetchReadings \/ PrepareWordOfGodData \/ AddWordOfGod

SpecWord == InitWord /\ [][NextWord]_vars

-----------------------------------------------------------------------------
(* Claims about the Word of God data *)

WordPrepared == wpc = "prepared"

\* self.rules of the builder of the schedule.
RulesOf(schedule) ==
  get_seasonal_rules(schedule.title, schedule.color, schedule.notes,
                     schedule.pop_form)

\* get_psalm raises for the psalm citation of the schedule.
PsalmRaises(schedule) ==
  /\ clean_psalm_ref(schedule.psalm) # ""
  /\ get_psalm(clean_psalm_ref(schedule.psalm)).raised # ""

\* The psalm cells with a citation get_psalm resolves.
ValidPsalmFields ==
  { p \in PsalmFields :
      /\ clean_psalm_ref(p) # ""
      /\ get_psalm(clean_psalm_ref(p)).raised = ""
      /\ get_psalm(clean_psalm_ref(p)).verses # << >> }

\* The keys of the data record.
WordOfGodKeys ==
  { "processional", "song_of_praise", "sequence_hymn", "collect_text",
    "reading_1_ref", "reading_1_text", "psalm_ref", "psalm_rubric", "psalm_text",
    "gospel_ref", "gospel_book", "gospel_text", "preacher", "pop_elements",
    "pop_concluding_rubric", "advent_wreath_verse", "advent_hymnal_ref",
    "penitential_sentence" }

\* The two records agree on every field but the psalm citation and text.
SameBesidesPsalm(d1, d2) ==
  /\ DOMAIN d1 = DOMAIN d2
  /\ \A f \in (DOMAIN d1) \ { "psalm_ref", "psalm_text" } : d1[f] = d2[f]

\* C23: when get_psalm raises for the psalm citation of the schedule,
\* _prepare_word_of_god_data still returns its full record, with an empty
\* psalm text and every other field as it is for a schedule that differs
\* only in holding a valid psalm citation under the same rubric.
C23_PsalmFailureIsolated ==
  (WordPrepared /\ PsalmRaises(sched)) =>
    /\ ~ wog_data.raised
    /\ DOMAIN wog_data.data = WordOfGodKeys
    /\ wog_data.data.psalm_text = << >>
    /\ \A v \in ValidPsalmFields :
         _get_psalm_rubric(v) = _get_psalm_rubric(sched.psalm) =>
           /\ _prepare_word_of_god_data([ sched EXCEPT !.psalm = v ], scripture,
                                        RulesOf(sched)).data.psalm_text # << >>
           /\ SameBesidesPsalm(
                wog_data.data,
                _prepare_word_of_god_data([ sched EXCEPT !.psalm = v ], scripture,
                                          RulesOf(sched)).data)

\* Data prepared for a schedule with readings fetched and a psalm citation
\* of a psalm the psalter does not hold.
C23_Witness ==
  /\ WordPrepared
  /\ PsalmRaises(sched)
  /\ get_psalm(clean_psalm_ref(sched.psalm)).raised = "not found"
  /\ wog_data.data.reading_1_text.is_reading
  /\ wog_data.data.gospel_text.is_reading
  /\ \E v \in ValidPsalmFields : _get_psalm_rubric(v) = _get_psalm_rubric(sched.psalm)

ReadingsFetched == wpc = "fetched"

\* The labels and citations generate.py asks fetch_readings for.
Requested(schedule) ==
  { refs_to_fetch(schedule)[i] : i \in 1..Len(refs_to_fetch(schedule)) }

\* The text the builder hands on for a label: the reading of the scripture
\* map, or the bare citation when the map holds none.
HandsOn(readings, label, ref, given) ==
  IF label \in DOMAIN readings
  THEN given.is_reading /\ given.reading = readings[label]
  ELSE ~ given.is_reading /\ given.text = ref

\* C24: fetch_readings returns exactly one entry per requested label: the
\* reading served for its citation, or, when the fetch of that label
\* failed, a placeholder reading, whatever became of the other labels; and
\* the builder does not raise and passes the bare citation as the text of a
\* reading the scripture map does not hold.
C24_UpstreamFailureTolerated ==
  /\ ReadingsFetched =>
       /\ DOMAIN scripture = { lr[1] : lr \in Requested(sched) }
       /\ \A lr \in Requested(sched) :
            /\ scripture[lr[1]].reference = lr[2]
            /\ lr[2] \in upstream =>
                 scripture[lr[1]] = fetch_reading(lr[2], upstream).reading
            /\ lr[2] \notin upstream =>
                 /\ scripture[lr[1]].paragraphs
                      = << "[Reading text not available: " \o lr[2] \o "]" >>
                 /\ scripture[lr[1]].poetry_lines = << >>
                 /\ ~ scripture[lr[1]].has_poetry
  /\ WordPrepared =>
       /\ ~ wog_data.raised
       /\ HandsOn(scripture, "reading", sched.reading, wog_data.data.reading_1_text)
       /\ HandsOn(scripture, "gospel", sched.gospel, wog_data.data.gospel_text)

\* Readings fetched while the upstream serves the gospel and not the first
\* reading, which is asked for first.
C24_Witness ==
  /\ ReadingsFetched
  /\ sched.reading # "" /\ sched.reading \notin upstream
  /\ sched.gospel # "" /\ sched.gospel \in upstream
  /\ scripture["gospel"].paragraphs = << "1 Text of " \o sched.gospel >>

WordWritten == wpc = "written"

\* The places in the section of the headings of a text.
HeadingPlaces(text) == { i \in 1..Len(doc) : doc[i].text = text }

\* Every heading of the first text stands before every heading of the second,
\* and both are there.
Before(first, second) ==
  /\ HeadingPlaces(first) # { }
  /\ HeadingPlaces(second) # { }
  /\ \A i \in HeadingPlaces(first) : \A j \in HeadingPlaces(second) : i < j

\* C29: in the written Word of God section the Confession of Sin stands at
\* most once: with use_penitential_order before the heading 'The Word of
\* God' and not after the Prayers of the People; without it after the
\* Prayers of the People and before The Peace, unless the POP form carries
\* its own confession, and then not at all.
C29_ConfessionPlacement ==
  WordWritten =>
    /\ Cardinality(HeadingPlaces("Confession of Sin")) <= 1
    /\ RulesOf(sched).use_penitential_order =>
         /\ Before("Confession of Sin", "The Word of God")
         /\ Before("Confession of Sin", "Prayers of the People")
    /\ ~ RulesOf(sched).use_penitential_order /\ ~ RulesOf(sched).pop_has_confession =>
         /\ Before("Prayers of the People", "Confession of Sin")
         /\ Before("Confession of Sin", "The Peace")
    /\ ~ RulesOf(sched).use_penitential_order /\ RulesOf(sched).pop_has_confession =>
         HeadingPlaces("Confession of Sin") = { }

\* A Lenten section written for a POP form with its own confession: the
\* Confession stands once, in the Penitential Order.
C29_Witness ==
  /\ WordWritten
  /\ RulesOf(sched).use_penitential_order
  /\ RulesOf(sched).pop_has_confession
  /\ Cardinality(HeadingPlaces("Confession of Sin")) = 1
  /\ Before("A Penitential Order", "Confession of Sin")
  /\ Before("Confession of Sin", "The Word of God")

-----------------------------------------------------------------------------
(* The corpus loaders: bulletin/sources/psalms.py _load_psalms,            *)
(* bulletin/sources/collects.py _load_collects, bulletin/data/loader.py    *)
(* _load_yaml, each under functools.lru_cache                              *)

\* The corpus files: _PSALMS_PATH, _DATA_PATH of collects.py, and the
\* relative paths load_pop_forms and load_staff hand to _load_yaml.
CorpusFiles ==
  { "bcp_texts/psalms.yaml", "bcp_texts/collects.yaml", "prayers/pop_forms.yaml",
    "staff.yaml" }

\* No more reads of one file than this are followed.
MaxReads == 3

\* lru_cache holds no value for the loader of the file.
NotCached == [ version |-> 0, elements |-> << >> ]

\* The elements of the form the builder uses, in the text of a later
\* edition of prayers/pop_forms.yaml.
revised_elements ==
  << [ type |-> "leader", text |-> "For {bishop}, {president} and {mayor}." ] >>

\* yaml.safe_load of the file in the given version of its content: the
\* version, and for prayers/pop_forms.yaml the elements of form_I.
safe_load(file, version) ==
  [ version |-> version,
    elements |-> IF file # "prayers/pop_forms.yaml" THEN << >>
                 ELSE IF version = 1 THEN pop_forms.form_I
                 ELSE revised_elements ]

\* A call of a loader under lru_cache: the cached value if there is one,
\* else open the file (FileNotFoundError if it is missing; an exception is
\* not cached), load it and cache the value.
cached_call(file, cache, on_disk) ==
  IF cache[file] # NotCached
  THEN [ raised |-> FALSE, value |-> cache[file], read |-> FALSE ]
  ELSE IF on_disk[file] = 0
  THEN [ raised |-> TRUE, value |-> NotCached, read |-> FALSE ]
  ELSE [ raised |-> FALSE, value |-> safe_load(file, on_disk[file]), read |-> TRUE ]

\* A variant of copy_and_substitute that writes the substituted text into
\* the element that is cached: new_elem = elem.
substitute_in_place(elem, items) ==
  [ result |-> new_elem(elem, items), cached |-> new_elem(elem, items) ]

\* new_elem = dict(elem); new_elem[field] = new_elem[field].replace(...):
\* the element appended to result, and the element of the cached form
\* afterwards.
copy_and_substitute(elem, items) ==
  [ result |-> new_elem(elem, items), cached |-> elem ]

\* The value of lru_cache for the loaders after a call with outcome out.
cache_after(file, cache, out) ==
  IF out.read THEN [ cache EXCEPT ![file] = out.value ] ELSE cache

\* result and the cached elements after the loop of _prepare_pop_elements
\* over the elements of the cached form.
substituted(elements, items) ==
  [ result |-> [ i \in 1..Len(elements) |->
                   copy_and_substitute(elements[i], items).result ],
    cached |-> [ i \in 1..Len(elements) |->
                   copy_and_substitute(elements[i], items).cached ] ]

\* The cached value of prayers/pop_forms.yaml after _prepare_pop_elements
\* ran its loop over it.
forms_after(value, after) == [ value EXCEPT !.elements = after.cached ]

-----------------------------------------------------------------------------
(* State machine of the corpus cache *)

InitCache ==
  /\ BesidesCacheIdle
  /\ disk \in [ CorpusFiles -> { 0, 1 } ]
  /\ lru = [ f \in CorpusFiles |-> NotCached ]
  /\ reads = [ f \in CorpusFiles |-> 0 ]
  /\ first_load = [ f \in CorpusFiles |-> NotCached ]
  /\ observed = << >>
  /\ pop_result = << >>
  /\ cpc = "running"

\* The bookkeeping of one loader call with outcome out.
Called(file, out) ==
  /\ reads[file] < MaxReads
  /\ lru' = cache_after(file, lru, out)
  /\ reads' = IF out.read THEN [ reads EXCEPT ![file] = @ + 1 ] ELSE reads
  /\ first_load' = IF out.read /\ first_load[file] = NotCached
                   THEN [ first_load EXCEPT ![file] = out.value ]
                   ELSE first_load
  /\ observed' = [ file |-> file, raised |-> out.raised, value |-> out.value,
                   read |-> out.read, on_disk |-> disk[file] ]

\* get_psalm: psalms = _load_psalms()
GetPsalmCall ==
  /\ cpc = "running"
  /\ Called("bcp_texts/psalms.yaml", cached_call("bcp_texts/psalms.yaml", lru, disk))
  /\ UNCHANGED << disk, pop_result, cpc >>
  /\ UNCHANGED besidesCache

\* get_collect: collects = _load_collects()
GetCollectCall ==
  /\ cpc = "running"
  /\ Called("bcp_texts/collects.yaml",
            cached_call("bcp_texts/collects.yaml", lru, disk))
  /\ UNCHANGED << disk, pop_result, cpc >>
  /\ UNCHANGED besidesCache

\* load_pop_forms() and load_staff(), called by themselves
LoadYaml ==
  /\ cpc = "running"
  /\ \E file \in { "prayers/pop_forms.yaml", "staff.yaml" } :
       Called(file, cached_call(file, lru, disk))
  /\ UNCHANGED << disk, pop_result, cpc >>
  /\ UNCHANGED besidesCache

\* _prepare_pop_elements when load_pop_forms() raises
PreparePopElementsNoForms ==
  /\ cpc = "running"
  /\ cached_call("prayers/pop_forms.yaml", lru, disk).raised
  /\ Called("prayers/pop_forms.yaml",
            cached_call("prayers/pop_forms.yaml", lru, disk))
  /\ UNCHANGED << disk, pop_result, cpc >>
  /\ UNCHANGED besidesCache

\* _prepare_pop_elements when load_staff() raises
PreparePopElementsNoStaff ==
  /\ cpc = "running"
  /\ ~ cached_call("prayers/pop_forms.yaml", lru, disk).raised
  /\ cached_call("staff.yaml", lru, disk).raised
  /\ reads["prayers/pop_forms.yaml"] < MaxReads
  /\ Called("staff.yaml",
            cached_call("staff.yaml",
                        cache_after("prayers/pop_forms.yaml", lru,
                                    cached_call("prayers/pop_forms.yaml", lru, disk)),
                        disk))
  /\ UNCHANGED << disk, pop_result, cpc >>
  /\ UNCHANGED besidesCache

\* What _prepare_pop_elements does once forms and staff are loaded, the
\* outcomes of the two loader calls given.
PopElementsStored(forms, staff, after) ==
  /\ reads["prayers/pop_forms.yaml"] < MaxReads
  /\ reads["staff.yaml"] < MaxReads
  /\ lru' = [ lru EXCEPT
                !["prayers/pop_forms.yaml"] =
                  forms_after(forms.value, after),
                !["staff.yaml"] = staff.value ]
  /\ reads' = [ f \in CorpusFiles |->
                  IF \/ f = "prayers/pop_forms.yaml" /\ forms.read
                     \/ f = "staff.yaml" /\ staff.read
                  THEN reads[f] + 1 ELSE reads[f] ]
  /\ first_load' = [ f \in CorpusFiles |->
                       IF first_load[f] # NotCached THEN first_load[f]
                       ELSE IF f = "prayers/pop_forms.yaml" /\ forms.read
                       THEN forms.value
                       ELSE IF f = "staff.yaml" /\ staff.read THEN staff.value
                       ELSE first_load[f] ]
  /\ observed' = [ file |-> "prayers/pop_forms.yaml", raised |-> FALSE,
                   value |-> forms.value, read |-> forms.read,
                   on_disk |-> disk["prayers/pop_forms.yaml"] ]
  /\ pop_result' = after.result

PopElementsPrepared(forms, staff) ==
  PopElementsStored(forms, staff,
                    substituted(forms.value.elements, subs(ParishMinistries)))

\* _prepare_pop_elements
PreparePopElements ==
  /\ cpc = "running"
  /\ ~ cached_call("prayers/pop_forms.yaml", lru, disk).raised
  /\ ~ cached_call("staff.yaml", lru, disk).raised
  /\ PopElementsPrepared(cached_call("prayers/pop_forms.yaml", lru, disk),
                         cached_call("staff.yaml", lru, disk))
  /\ UNCHANGED << disk, cpc >>
  /\ UNCHANGED besidesCache

\* Somebody creates a missing corpus file, or revises, removes or restores
\* one the process has loaded, while the process runs.
EditFile ==
  /\ cpc = "running"
  /\ \E file \in CorpusFiles : \E version \in 0..2 :
       /\ version # disk[file]
       /\ lru[file] # NotCached \/ (disk[file] = 0 /\ version = 1)
       /\ disk' = [ disk EXCEPT ![file] = version ]
  /\ UNCHANGED << lru, reads, first_load, observed, pop_result, cpc >>
  /\ UNCHANGED besidesCache

NextCache ==
  \/ GetPsalmCall \/ GetCollectCall \/ LoadYaml
  \/ PreparePopElementsNoForms \/ PreparePopElementsNoStaff \/ PreparePopElements
  \/ EditFile

SpecCache == InitCache /\ [][NextCache]_vars


-----------------------------------------------------------------------------
(* Claims about the corpus cache *)

\* The last resolver call returned a value.
Answered == observed # << >> /\ ~ observed.raised

\* Files the process has loaded successfully.
Loaded == { f \in CorpusFiles : first_load[f] # NotCached }

\* C25: across any sequence of resolver calls in one process (get_psalm,
\* get_collect, the loaders, POP element preparation), a corpus file is read
\* from disk at most once after a successful load, every call that answers
\* observes the content of that first load whatever the file holds by then,
\* and the cached value, the form elements that POP substitution worked on
\* included, stays what the first load returned.
C25_LoadOnceImmutable ==
  /\ \A f \in CorpusFiles : reads[f] <= 1
  /\ \A f \in CorpusFiles : reads[f] = 1 <=> f \in Loaded
  /\ Answered => observed.value = first_load[observed.file]
  /\ \A f \in Loaded : lru[f] = first_load[f]

\* POP elements were prepared with substitutions from forms that were
\* cached before, and the file had been revised on disk by then.
C25_Witness ==
  /\ Answered
  /\ observed.file = "prayers/pop_forms.yaml"
  /\ ~ observed.read
  /\ observed.on_disk = 2
  /\ observed.value.version = 1
  /\ pop_result # << >>
  /\ pop_result # observed.value.elements
  /\ lru["prayers/pop_forms.yaml"].elements = pop_forms.form_I


-----------------------------------------------------------------------------
(* Repeated rule derivation: the records get_seasonal_rules hands out and
   the list objects they refer to (src/bulletin/logic/rules.py) *)

MaxCalls == 3

\* A list object: what its literal held when it was created, and its items now.
ListObject(items) == [ literal |-> items, items |-> items ]

\* A variant of list_literal in which the lists of _get_proper_preface_key
\* are shared objects: a literal met before denotes the object made then.
list_constant(objects, items) ==
  IF \E id \in 1..Len(objects) : objects[id].literal = items
  THEN CHOOSE id \in 1..Len(objects) :
         /\ objects[id].literal = items
         /\ \A other \in 1..(id - 1) : objects[other].literal # items
  ELSE Len(objects) + 1

\* The identity of the object a list literal evaluates to: a new one each time.
list_literal(objects, items) == Len(objects) + 1

\* The objects once the list with identity id exists.
objects_with(objects, id, items) ==
  IF id > Len(objects) THEN Append(objects, ListObject(items)) ELSE objects

\* SeasonalRules(...) with proper_preface_options referring to object id.
SeasonalRules(r, id) == [ r EXCEPT !.proper_preface_options = id ]

\* What a reader of record sees: its fields, the list read through objects.
record_value(record, objects) ==
  [ record EXCEPT !.proper_preface_options = objects[@].items ]

\* list.append(item) and list.clear() on the items of a list
ListMethods == { "append", "clear" }

list_apply(items, method) ==
  IF method = "append" THEN Append(items, "chosen") ELSE << >>

\* (title, color, notes, pop_form) handed to get_seasonal_rules
DeriverInputs ==
  { << "Third Sunday in Lent", "Violet", "", "I" >>,
    << "Proper 15", "Green", "", "VI (w/ confession)" >>,
    << "Easter Day", "White", "Baptism", "III" >>,
    << "Palm Sunday", "Red", "", "I" >> }

-----------------------------------------------------------------------------
(* State machine of repeated derivation *)

InitDeriver ==
  /\ BesidesDeriverIdle
  /\ heap = << >>
  /\ returned = << >>
  /\ dpc = "deriving"

\* One call of get_seasonal_rules, r its fields and id its options list.
ReturnRecord(in, r, id) ==
  /\ heap' = objects_with(heap, id, r.proper_preface_options)
  /\ returned' = Append(returned,
       [ inputs |-> in,
         record |-> SeasonalRules(r, id),
         value |-> record_value(SeasonalRules(r, id),
                     objects_with(heap, id, r.proper_preface_options)) ])

Derive(in, r) == ReturnRecord(in, r, list_literal(heap, r.proper_preface_options))

GetSeasonalRules ==
  /\ dpc = "deriving"
  /\ Len(returned) < MaxCalls
  /\ \E in \in DeriverInputs :
       Derive(in, get_seasonal_rules(in[1], in[2], in[3], in[4]))
  /\ UNCHANGED dpc
  /\ UNCHANGED besidesDeriver

\* The caller changes the proper_preface_options list of a record it holds.
MutateOptions ==
  /\ dpc = "deriving"
  /\ \E k \in 1..Len(returned) : \E method \in ListMethods :
       /\ method = "append" =>
            Len(heap[returned[k].record.proper_preface_options].items) <
              Len(heap[returned[k].record.proper_preface_options].literal) + 1
       /\ method = "clear" =>
            heap[returned[k].record.proper_preface_options].items # << >>
       /\ heap' = [ heap EXCEPT ![returned[k].record.proper_preface_options].items =
                      list_apply(@, method) ]
  /\ UNCHANGED << returned, dpc >>
  /\ UNCHANGED besidesDeriver

NextDeriver == GetSeasonalRules \/ MutateOptions

SpecDeriver == InitDeriver /\ [][NextDeriver]_vars


-----------------------------------------------------------------------------
(* Claims about repeated derivation *)

\* The list a returned record refers to no longer holds what it held at return.
Mutated(k) ==
  heap[returned[k].record.proper_preface_options].items #
    returned[k].value.proper_preface_options

\* C26: two calls of get_seasonal_rules with identical (title, color, notes,
\* POP-form) inputs return records equal in every field, whatever calls came
\* between them and also when a caller changed the proper_preface_options
\* list of a record returned before.
C26_Deterministic ==
  \A i \in 1..Len(returned) : \A j \in 1..Len(returned) :
    returned[i].inputs = returned[j].inputs =>
      returned[i].value = returned[j].value

\* The same inputs were derived twice with another call between them, after
\* the options list of the first record was changed by its holder.
C26_Witness ==
  /\ Len(returned) = 3
  /\ returned[1].inputs = returned[3].inputs
  /\ returned[2].inputs # returned[1].inputs
  /\ returned[1].value.proper_preface_options # << >>
  /\ Mutated(1)
  /\ ~ Mutated(3)
  /\ returned[1].record.proper_preface_options #
       returned[3].record.proper_preface_options


-----------------------------------------------------------------------------
(* Further claims about the rules engine *)

\* C27: every title that proper-preface selection recognises as Holy Week
\* is classified as season 'lent' whatever its color, so that no record has
\* proper_preface_key 'holy_week' together with dismissal_has_alleluia true
\* or use_penitential_order false.
C27_HolyWeekIsLent ==
  Derived =>
    /\ _is_holy_week(title) => rules.season = "lent"
    /\ rules.proper_preface_key = "holy_week" =>
         /\ ~ rules.dismissal_has_alleluia
         /\ rules.use_penitential_order

\* C30: every record of get_seasonal_rules is consistent in itself:
\* use_penitential_order, confession_before_word, use_fraction_anthem and
\* use_prayer_over_people are equal and the negation of
\* include_collect_for_purity; use_penitential_order and
\* dismissal_has_alleluia are never both true; the fraction texts are empty
\* exactly when use_fraction_anthem is true; prompt_preface is true exactly
\* when proper_preface_options is not empty; pop_use_bcp_form_vi equals
\* pop_has_confession; no_confession_after_pop is use_penitential_order or
\* pop_has_confession.
C30_RecordConsistent ==
  Derived =>
    /\ rules.confession_before_word = rules.use_penitential_order
    /\ rules.use_fraction_anthem = rules.use_penitential_order
    /\ rules.use_prayer_over_people = rules.use_penitential_order
    /\ rules.include_collect_for_purity = ~ rules.use_penitential_order
    /\ ~ (rules.use_penitential_order /\ rules.dismissal_has_alleluia)
    /\ rules.fraction_celebrant = "" <=> rules.use_fraction_anthem
    /\ rules.fraction_people = "" <=> rules.use_fraction_anthem
    /\ rules.prompt_preface <=> rules.proper_preface_options # << >>
    /\ rules.pop_use_bcp_form_vi = rules.pop_has_confession
    /\ rules.no_confession_after_pop =
         (rules.use_penitential_order \/ rules.pop_has_confession)

\* A Lenten record with a POP form that carries its own confession and with
\* preface options to choose from.
C30_Witness ==
  /\ Derived
  /\ rules.use_penitential_order
  /\ rules.pop_has_confession
  /\ rules.no_confession_after_pop
  /\ rules.proper_preface_options # << >>
  /\ rules.fraction_celebrant = ""

=============================================================================
